---- MODULE Spec2Model ----
(***************************************************************************)
(* A model of the veloren-translate pipeline stages:                       *)
(*   Ingest           apps/rss-digester/src/index.ts                       *)
(*   Translate        apps/batch-translator/src/index.ts                   *)
(*   Render-Markdown  apps/html-to-markdown/src/index.ts                   *)
(*   Render-JSON      apps/html-to-content (src/unnamed/part_002)          *)
(*                                                                         *)
(* Text the code computes on character by character (titles, object names, *)
(* translated contents) is a sequence of one-character strings; text the   *)
(* code only passes around (links, messages, a timestamp it formats) is a  *)
(* string, and stands as one element where it is set into such a sequence. *)
(***************************************************************************)
EXTENDS Integers, Sequences, FiniteSets, Bags, TLC

VARIABLES
    budget,     \* Ingest invocations the trigger may still start
    ledger,     \* the object processed_rss_items.json of the raw-HTML bucket
    rawStore,   \* the other objects of the raw-HTML bucket: path -> content
    orphans,    \* item writes still in flight whose invocation was replaced:
                \* a bag, one copy for each pending file.save call
    inv,        \* per Ingest process: the running (or last) invocation
    tr,         \* Translate: its deliveries, and what the API was asked
    rn,         \* Render-Markdown and Render-JSON: deliveries and buckets
    fn          \* a function of the code applied by itself: input and result

vars == <<budget, ledger, rawStore, orphans, inv, tr, rn, fn>>

----------------------------------------------------------------------------
(* Bounds of the model.                                                    *)

MaxRuns == 3
MaxFeedLen == 2
MaxClock == 1
NumProcs == 1
MaxDeliveries == 2
MaxRenders == 1

Procs == 1..NumProcs

----------------------------------------------------------------------------
(* Text helpers.                                                           *)

Lower == {"a","b","c","d","e","f","g","h","i","j","k","l","m",
          "n","o","p","q","r","s","t","u","v","w","x","y","z"}
Upper == {"A","B","C","D","E","F","G","H","I","J","K","L","M",
          "N","O","P","Q","R","S","T","U","V","W","X","Y","Z"}
Digit == {"0","1","2","3","4","5","6","7","8","9"}

RECURSIVE Flat(_)
Flat(s) == IF s = <<>> THEN "" ELSE Head(s) \o Flat(Tail(s))

Min(a, b) == IF a <= b THEN a ELSE b

----------------------------------------------------------------------------
(* Ingest: configuration and inputs.                                       *)

PROCESSED_ITEMS_FILE == "processed_rss_items.json"

SlugMaxLen == 50

\* The feed items the parser may return.  A field the parser leaves out is
\* the empty text: the code reads every field through || or &&, for which
\* undefined and "" behave alike.
Item(t, l, d, c, e) ==
    [title |-> t, link |-> l, pubDate |-> d, content |-> c, contentEncoded |-> e]

FeedItems ==
    { Item(<<"P","o","s","t"," ","1">>, "http://example.com/post1", "Mon, 01 Jan 2024", "<p>1</p>", ""),
      Item(<<"P","o","s","t","-","1">>, "http://example.com/post2", "", "", "<p>2</p>"),
      Item(<<>>, "", "Wed, 03 Jan 2024", "<p>3</p>", "") }

RECURSIVE SeqsUpTo(_, _)
SeqsUpTo(S, n) ==
    IF n = 0 THEN {<<>>}
    ELSE LET shorter == SeqsUpTo(S, n - 1)
         IN  shorter \cup {Append(s, x) : s \in shorter, x \in S}

\* What parser.parseURL resolves to: feed.items, which may be missing.
Feeds ==
    {[hasItems |-> FALSE, items |-> <<>>]}
    \cup {[hasItems |-> TRUE, items |-> s] : s \in SeqsUpTo(FeedItems, MaxFeedLen)}

\* The readings of the clock a burst of n reads may see, starting at t0:
\* the clock never runs backwards.
RECURSIVE Stamps(_, _)
Stamps(n, t0) ==
    IF n = 0 THEN {<<>>}
    ELSE UNION {{<<t>> \o s : s \in Stamps(n - 1, t)} : t \in t0..MaxClock}

ToISOString(t) == "iso:" \o ToString(t)

----------------------------------------------------------------------------
(* Ingest: the pure parts.                                                 *)

\* new Set(array): the elements in first-insertion order, without repeats.
RECURSIVE NewSet(_)
NewSet(a) ==
    IF a = <<>> THEN <<>>
    ELSE LET front == NewSet(SubSeq(a, 1, Len(a) - 1))
             x == a[Len(a)]
         IN  IF \E i \in 1..Len(front) : front[i] = x THEN front ELSE Append(front, x)

\* An add that puts a new element before the others.
SetAddFirst(set, x) ==
    IF \E i \in 1..Len(set) : set[i] = x THEN set ELSE <<x>> \o set

Has(set, x) == \E i \in 1..Len(set) : set[i] = x

\* A callback that never records the link of the item it wrote.
SetAddNothing(set, x) == set

SetAdd(set, x) == IF Has(set, x) THEN set ELSE Append(set, x)

Elems(set) == {set[i] : i \in 1..Len(set)}

\* A getProcessedItems whose catch returns the empty set for a 404 only and
\* throws every other error on.
getProcessedItemsRethrow(outcome, content) ==
    IF outcome = "ok"
    THEN [threw |-> FALSE, value |-> NewSet(content)]
    ELSE [threw |-> outcome # "notfound", value |-> <<>>]

\* getProcessedItems: the download and the parse run inside try; the catch
\* returns an empty set for a 404 and for every other error alike.
\*   outcome "ok"       the download resolves with the object's content
\*           "notfound" it rejects with code 404
\*           "error"    it rejects with another error
\*           "corrupt"  it resolves with content JSON.parse rejects
getProcessedItems(outcome, content) ==
    IF outcome = "ok"
    THEN [threw |-> FALSE, value |-> NewSet(content)]
    ELSE [threw |-> FALSE, value |-> <<>>]

\* A filter that forgets to look the link up in the ledger.
isNewAnyLink(item, processedItems) ==
    item.link # ""

\* A filter that does not ask for a link.
isNewWithoutLink(item, processedItems) ==
    ~Has(processedItems, item.link)

\* currentItems.filter(item => item.link && !processedItems.has(item.link))
isNew(item, processedItems) ==
    item.link # "" /\ ~Has(processedItems, item.link)

RECURSIVE Filter(_, _)
Filter(items, processedItems) ==
    IF items = <<>> THEN <<>>
    ELSE LET rest == Filter(Tail(items), processedItems)
         IN  IF isNew(Head(items), processedItems)
             THEN <<Head(items)>> \o rest ELSE rest

\* title.replace(/[^a-zA-Z0-9]/g, "_").substring(0, 50), then
\* encodeURIComponent, which leaves letters, digits and "_" as they are.
SlugChar(c) == IF c \in Lower \cup Upper \cup Digit THEN c ELSE "_"

\* A slug that keeps the whole title.
SlugUncut(title) ==
    [i \in 1..Len(title) |-> SlugChar(title[i])]

Slug(title) ==
    [i \in 1..Min(Len(title), SlugMaxLen) |-> SlugChar(title[i])]

TitleOf(item) == IF item.title # <<>> THEN item.title
                 ELSE <<"N","o"," ","T","i","t","l","e">>

FilePath(item, t) ==
    "raw-html/" \o Flat(Slug(TitleOf(item))) \o "-" \o ToString(t) \o ".html"

\* Values of the template that leave the link of the item out.
HtmlPartsNoUrl(item, tDate) ==
    [title   |-> Flat(TitleOf(item)),
     pubDate |-> IF item.pubDate # "" THEN item.pubDate ELSE ToISOString(tDate),
     url     |-> "No URL",
     content |-> IF item.content # "" THEN item.content
                 ELSE IF item.contentEncoded # "" THEN item.contentEncoded ELSE ""]

\* The four values the template of htmlContent is filled with.
HtmlParts(item, tDate) ==
    [title   |-> Flat(TitleOf(item)),
     pubDate |-> IF item.pubDate # "" THEN item.pubDate ELSE ToISOString(tDate),
     url     |-> IF item.link # "" THEN item.link ELSE "No URL",
     content |-> IF item.content # "" THEN item.content
                 ELSE IF item.contentEncoded # "" THEN item.contentEncoded ELSE ""]

\* One callback of newItems.map up to its await: clock reading 2k-1 is the
\* default publish date's, reading 2k is Date.now() of the file name.
Upload(item, stamps, k) ==
    [path   |-> FilePath(item, stamps[2 * k]),
     body   |-> HtmlParts(item, stamps[2 * k - 1]),
     bucket |-> "veloren-html-raw",
     contentType |-> "text/html",
     link   |-> item.link,
     status |-> "pending"]

\* A join that is fulfilled by the first write to resolve (Promise.race or
\* Promise.any in place of Promise.all).
PromiseFirst(uploads) ==
    IF \E k \in 1..Len(uploads) : uploads[k].status = "failed" THEN "rejected"
    ELSE IF \E k \in 1..Len(uploads) : uploads[k].status = "ok" THEN "fulfilled"
    ELSE "pending"

\* Promise.all over the item writes: rejected as soon as one is, fulfilled
\* once every one is.
PromiseAll(uploads) ==
    IF \E k \in 1..Len(uploads) : uploads[k].status = "failed" THEN "rejected"
    ELSE IF \A k \in 1..Len(uploads) : uploads[k].status = "ok" THEN "fulfilled"
    ELSE "pending"

\* A catch that sends the message without setting the status.
ErrorResponseNoStatus(message) ==
    [status |-> 200, body |-> "Error processing RSS feed: " \o message]

\* res.status(500).send(`Error processing RSS feed: ${error.message}`)
ErrorResponse(message) ==
    [status |-> 500, body |-> "Error processing RSS feed: " \o message]

NoResponse == [status |-> 0, body |-> ""]

\* A test that takes an empty item list for a feed to process.
NoItemsMissingOnly(feed) == ~feed.hasItems

\* if (!currentItems || currentItems.length === 0)
NoItems(feed) == ~feed.hasItems \/ Len(feed.items) = 0

----------------------------------------------------------------------------
(* Ingest: the state.                                                      *)

NoLedger == [exists |-> FALSE, urls |-> <<>>]

NoFeed == [hasItems |-> FALSE, items |-> <<>>]

NoRun == [feed |-> <<>>, batch |-> <<>>, writeFailed |-> FALSE,
          succeeded |-> FALSE]

IdleInv ==
    [pc                |-> "idle",
     feed              |-> NoFeed,     \* what parser.parseURL resolved to
     processedItems    |-> <<>>,
     newProcessedItems |-> <<>>,
     newItems          |-> <<>>,
     uploads           |-> <<>>,       \* the item writes: path, body, status
     saveArg           |-> <<>>,       \* urlsArray of saveProcessedItems
     saves             |-> 0,          \* calls of saveProcessedItems
     res               |-> NoResponse,
     \* history, for stating properties
     fetched           |-> "none",     \* how parser.parseURL ended
     error             |-> "",         \* the message of the error main caught
     ledger0           |-> NoLedger,   \* the ledger when the invocation began
     readOutcome       |-> "none",     \* how the ledger download ended
     loaded            |-> [threw |-> FALSE, value |-> <<>>],
     prev              |-> NoRun]      \* the invocation before, until the read

Links == {i.link : i \in FeedItems} \ {""}

\* The ledgers Ingest can have saved: every link once, in some order.
Ledgers ==
    {NoLedger} \cup
    {[exists |-> TRUE, urls |-> s] :
        s \in {t \in SeqsUpTo(Links, Cardinality(Links)) :
                 t # <<>> /\ \A i, j \in 1..Len(t) : i # j => t[i] # t[j]}}

\* Translate before any delivery.
IdleTranslate ==
    [pc         |-> "idle",
     deliveries |-> 0,
     clock      |-> 0,           \* the last reading of Date.now()
     event      |-> [bucket |-> "", name |-> ""],
     request    |-> <<>>,        \* the request of this delivery, if one was made
     requests   |-> {},          \* every request batchTranslateText was given
     outcome    |-> "none",      \* how the promise main returned settled
     failedAt   |-> "",          \* the call whose rejection the catch took
     logged     |-> ""]

\* The Render stages before any delivery.
IdleRender ==
    [pc         |-> "idle",
     stage      |-> "none",      \* which of the two mains runs
     deliveries |-> 0,
     clock      |-> 0,           \* the last reading of the clock
     data       |-> TRUE,        \* whether the event carried file data
     event      |-> [bucket |-> "", name |-> <<>>],
     match      |-> <<>>,        \* fileMatch: <<>> for null
     downloads  |-> 0,           \* calls of download() in this delivery
     write      |-> <<>>,        \* the save() of this delivery, if issued
     outcome    |-> "none",      \* how the promise main returned settled
     failedAt   |-> "",          \* the step whose error the catch took
     error      |-> "",
     markdown   |-> <<>>,        \* the Markdown bucket: path -> object
     content    |-> <<>>,        \* the content bucket: path -> object
     before     |-> [markdown |-> <<>>, content |-> <<>>]]

\* No function applied.
NoFn == [op |-> "none"]

\* No Ingest invocation is ever started.
IngestOff ==
    /\ budget = 0
    /\ ledger = NoLedger
    /\ rawStore = <<>>
    /\ orphans = EmptyBag
    /\ inv = [p \in Procs |-> IdleInv]

\* The bucket as deployed, and MaxRuns invocations.
Init ==
    /\ budget = MaxRuns
    /\ ledger = NoLedger
    /\ rawStore = <<>>
    /\ orphans = EmptyBag
    /\ inv = [p \in Procs |-> IdleInv]
    /\ tr = IdleTranslate
    /\ rn = IdleRender
    /\ fn = NoFn

\* One invocation, whatever ledger earlier invocations left.
InitOne ==
    /\ budget = 1
    /\ ledger \in Ledgers
    /\ rawStore = <<>>
    /\ orphans = EmptyBag
    /\ inv = [p \in Procs |-> IdleInv]
    /\ tr = IdleTranslate
    /\ rn = IdleRender
    /\ fn = NoFn

----------------------------------------------------------------------------
(* Ingest: main, one action per await.                                     *)

\* The item writes of an invocation that have not settled, as a bag: two
\* file.save calls with the same path and body are two pending calls.
Pending(uploads) ==
    LET waiting == {j \in 1..Len(uploads) : uploads[j].status = "pending"}
        call(k) == [path |-> uploads[k].path, body |-> uploads[k].body]
    IN  [w \in {call(k) : k \in waiting} |->
            Cardinality({k \in waiting : call(k) = w})]

WriteFailed(r) == \E k \in 1..Len(r.uploads) : r.uploads[k].status = "failed"

\* What a later invocation is compared with: the feed and the batch of an
\* invocation that ended on a failed item write, and the feed of one that
\* answered 200.
RunSummary(r) ==
    IF r.pc = "done" /\ WriteFailed(r)
    THEN [feed |-> r.feed.items, batch |-> r.newItems, writeFailed |-> TRUE,
          succeeded |-> FALSE]
    ELSE IF r.pc = "done" /\ r.res.status = 200
    THEN [feed |-> r.feed.items, batch |-> r.newItems, writeFailed |-> FALSE,
          succeeded |-> TRUE]
    ELSE NoRun

\* The HTTP trigger fires: main runs to await parser.parseURL.  Writes the
\* invocation before left in flight go on by themselves.
Start(p) ==
    /\ inv[p].pc \in {"idle", "done"}
    /\ budget > 0
    /\ budget' = budget - 1
    /\ orphans' = orphans (+) Pending(inv[p].uploads)
    /\ inv' = [inv EXCEPT ![p] =
                 [IdleInv EXCEPT !.pc = "fetching",
                                 !.ledger0 = ledger,
                                 !.prev = RunSummary(inv[p])]]
    /\ UNCHANGED <<ledger, rawStore, tr, rn, fn>>

FetchMessages == {"Failed to fetch feed", "Status code 503"}

\* parser.parseURL rejects: the catch answers 500.
FetchRejected(p) ==
    /\ inv[p].pc = "fetching"
    /\ \E message \in FetchMessages :
         inv' = [inv EXCEPT ![p].pc = "done",
                            ![p].fetched = "failed",
                            ![p].error = message,
                            ![p].res = ErrorResponse(message)]
    /\ UNCHANGED <<budget, ledger, rawStore, orphans, tr, rn, fn>>

\* parser.parseURL resolves: an empty feed is answered at once, otherwise
\* main runs to the download inside getProcessedItems.
FetchResolved(p) ==
    /\ inv[p].pc = "fetching"
    /\ \E feed \in Feeds :
         LET got == [inv EXCEPT ![p].fetched = "ok", ![p].feed = feed]
         IN  IF NoItems(feed)
             THEN inv' = [got EXCEPT ![p].pc = "done",
                                     ![p].res = [status |-> 200,
                                                 body |-> "No RSS items to process."]]
             ELSE inv' = [got EXCEPT ![p].pc = "loading"]
    /\ UNCHANGED <<budget, ledger, rawStore, orphans, tr, rn, fn>>

\* How the download of the ledger may end, given the bucket.
ReadOutcomes ==
    IF ledger.exists THEN {"ok", "error", "corrupt"} ELSE {"notfound", "error"}

\* The ledger download settles: getProcessedItems returns, the feed is
\* filtered, and with new items every callback of newItems.map runs to its
\* file.save, so that all item writes are in flight when main awaits
\* Promise.all.
LedgerRead(p) ==
    /\ inv[p].pc = "loading"
    /\ \E outcome \in ReadOutcomes :
         LET got == getProcessedItems(outcome, ledger.urls)
             newItems == Filter(inv[p].feed.items, got.value)
             n == Len(newItems)
             seen == [inv EXCEPT ![p].readOutcome = outcome,
                                 ![p].loaded = got,
                                 ![p].prev = NoRun]
         IN  IF got.threw
             THEN inv' = [seen EXCEPT ![p].pc = "done",
                                      ![p].error = "Storage read error",
                                      ![p].res = ErrorResponse("Storage read error")]
             ELSE IF n = 0
             THEN inv' = [seen EXCEPT
                            ![p].pc = "done",
                            ![p].processedItems = got.value,
                            ![p].newProcessedItems = got.value,
                            ![p].res = [status |-> 200,
                                        body |-> "No new RSS items to process."]]
             ELSE \E stamps \in Stamps(2 * n, 0) :
                    inv' = [seen EXCEPT
                              ![p].pc = "uploading",
                              ![p].processedItems = got.value,
                              ![p].newProcessedItems = got.value,
                              ![p].newItems = newItems,
                              ![p].uploads =
                                  [k \in 1..n |-> Upload(newItems[k], stamps, k)]]
    /\ UNCHANGED <<budget, ledger, rawStore, orphans, tr, rn, fn>>

\* file.save on an object of the bucket: the object is created or replaced.
Put(store, path, body) == (path :> body) @@ store

\* One item write resolves: the object is stored, the callback records the
\* link, and when Promise.all is thereby fulfilled main calls
\* saveProcessedItems, which runs to its file.save.
WriteResolved(p, k) ==
    /\ inv[p].pc \in {"uploading", "saving", "done"}
    /\ k \in 1..Len(inv[p].uploads)
    /\ inv[p].uploads[k].status = "pending"
    /\ rawStore' = Put(rawStore, inv[p].uploads[k].path, inv[p].uploads[k].body)
    /\ LET uploads == [inv[p].uploads EXCEPT ![k].status = "ok"]
           added == IF inv[p].uploads[k].link # ""
                    THEN SetAdd(inv[p].newProcessedItems, inv[p].uploads[k].link)
                    ELSE inv[p].newProcessedItems
           after == [inv EXCEPT ![p].uploads = uploads,
                                ![p].newProcessedItems = added]
       IN  IF inv[p].pc = "uploading" /\ PromiseAll(uploads) = "fulfilled"
           THEN inv' = [after EXCEPT ![p].pc = "saving",
                                     ![p].saveArg = added,
                                     ![p].saves = inv[p].saves + 1]
           ELSE inv' = after
    /\ UNCHANGED <<budget, ledger, orphans, tr, rn, fn>>

WriteMessage(k) == "Storage write error " \o ToString(k)

\* One item write rejects: the first rejection rejects Promise.all, and the
\* catch answers 500 while the other writes stay in flight.
WriteRejected(p, k) ==
    /\ inv[p].pc \in {"uploading", "saving", "done"}
    /\ k \in 1..Len(inv[p].uploads)
    /\ inv[p].uploads[k].status = "pending"
    /\ LET uploads == [inv[p].uploads EXCEPT ![k].status = "failed"]
       IN  IF inv[p].pc = "uploading" /\ PromiseAll(uploads) = "rejected"
           THEN inv' = [inv EXCEPT ![p].uploads = uploads,
                                   ![p].pc = "done",
                                   ![p].error = WriteMessage(k),
                                   ![p].res = ErrorResponse(WriteMessage(k))]
           ELSE inv' = [inv EXCEPT ![p].uploads = uploads]
    /\ UNCHANGED <<budget, ledger, rawStore, orphans, tr, rn, fn>>

\* A save that keeps the links the object holds by now and adds its own.
SaveResolvedMerged(p) ==
    /\ inv[p].pc = "saving"
    /\ ledger' = [exists |-> TRUE,
                  urls   |-> NewSet(ledger.urls \o inv[p].saveArg)]
    /\ inv' = [inv EXCEPT
                 ![p].pc = "done",
                 ![p].res = [status |-> 200,
                             body |-> "New RSS feed digestion completed successfully."]]
    /\ UNCHANGED <<budget, rawStore, orphans, tr, rn, fn>>

\* The save of the ledger resolves: the object is overwritten with the
\* array, and main answers 200.
SaveResolved(p) ==
    /\ inv[p].pc = "saving"
    /\ ledger' = [exists |-> TRUE, urls |-> inv[p].saveArg]
    /\ inv' = [inv EXCEPT
                 ![p].pc = "done",
                 ![p].res = [status |-> 200,
                             body |-> "New RSS feed digestion completed successfully."]]
    /\ UNCHANGED <<budget, rawStore, orphans, tr, rn, fn>>

\* The save of the ledger rejects: the catch answers 500.
SaveRejected(p) ==
    /\ inv[p].pc = "saving"
    /\ inv' = [inv EXCEPT ![p].pc = "done",
                          ![p].error = "Storage save error",
                          ![p].res = ErrorResponse("Storage save error")]
    /\ UNCHANGED <<budget, ledger, rawStore, orphans, tr, rn, fn>>

\* A write left in flight by an invocation that has since been replaced
\* settles: one pending call is gone, the others of the same path and
\* body stay in flight.
OrphanResolved ==
    /\ \E w \in BagToSet(orphans) :
         /\ orphans' = orphans (-) SetToBag({w})
         /\ rawStore' = Put(rawStore, w.path, w.body)
    /\ UNCHANGED <<budget, ledger, inv, tr, rn, fn>>

OrphanRejected ==
    /\ \E w \in BagToSet(orphans) : orphans' = orphans (-) SetToBag({w})
    /\ UNCHANGED <<budget, ledger, rawStore, inv, tr, rn, fn>>

IngestStep(p) ==
    \/ Start(p)
    \/ FetchRejected(p)
    \/ FetchResolved(p)
    \/ LedgerRead(p)
    \/ \E k \in 1..MaxFeedLen : WriteResolved(p, k)
    \/ \E k \in 1..MaxFeedLen : WriteRejected(p, k)
    \/ SaveResolved(p)
    \/ SaveRejected(p)

\* Ingest invocations one after another, on one process.
Next ==
    \/ IngestStep(1)
    \/ OrphanResolved
    \/ OrphanRejected

Spec == Init /\ [][Next]_vars

\* One Ingest invocation.
NextOne == IngestStep(1)

SpecOne == InitOne /\ [][NextOne]_vars

----------------------------------------------------------------------------
(* Ingest: one invocation after another has ended.                         *)

\* Two invocations in turn, whatever ledger earlier ones left.  The second
\* is triggered once the first has answered 200, and the feed has not
\* changed in between.
InitTwice ==
    /\ budget = 2
    /\ ledger \in Ledgers
    /\ rawStore = <<>>
    /\ orphans = EmptyBag
    /\ inv = [p \in Procs |-> IdleInv]
    /\ tr = IdleTranslate
    /\ rn = IdleRender
    /\ fn = NoFn

StartInTurn(p) ==
    /\ inv[p].pc = "done" => inv[p].res.status = 200
    /\ Start(p)

FetchUnchanged(p) ==
    /\ FetchResolved(p)
    /\ inv[p].prev.succeeded => inv'[p].feed.items = inv[p].prev.feed

NextTwice ==
    \/ StartInTurn(1)
    \/ FetchRejected(1)
    \/ FetchUnchanged(1)
    \/ LedgerRead(1)
    \/ \E k \in 1..MaxFeedLen : WriteResolved(1, k)
    \/ \E k \in 1..MaxFeedLen : WriteRejected(1, k)
    \/ SaveResolved(1)
    \/ SaveRejected(1)

SpecTwice == InitTwice /\ [][NextTwice]_vars

----------------------------------------------------------------------------
(* Ingest: two invocations that overlap, on two instances of the function. *)

Invocations == {1, 2}

\* Nothing is stored, and neither invocation has begun.
InitPair ==
    /\ budget = 2
    /\ ledger = NoLedger
    /\ rawStore = <<>>
    /\ orphans = EmptyBag
    /\ inv = [p \in Invocations |-> IdleInv]
    /\ tr = IdleTranslate
    /\ rn = IdleRender
    /\ fn = NoFn

\* The feeds the two invocations are given: the newest item first, every
\* item with a link of its own.
PairFeeds ==
    {f \in Feeds :
        /\ f.items # <<>>
        /\ f.items[1].link = "http://example.com/post1"
        /\ \A i, j \in 1..Len(f.items) :
               /\ f.items[i].link # ""
               /\ i # j => f.items[i].link # f.items[j].link}

\* Either invocation takes its next step; each instance serves one request.
NextPair ==
    \E p \in Invocations :
        \/ inv[p].pc = "idle" /\ Start(p)
        \/ FetchRejected(p)
        \/ FetchResolved(p) /\ inv'[p].feed \in PairFeeds
        \/ LedgerRead(p)
        \/ \E k \in 1..MaxFeedLen : WriteResolved(p, k)
        \/ \E k \in 1..MaxFeedLen : WriteRejected(p, k)
        \/ SaveResolved(p)
        \/ SaveRejected(p)

SpecPair == InitPair /\ [][NextPair]_vars

----------------------------------------------------------------------------
(* Translate: main of the batch translator.                                *)

RAW_HTML_BUCKET_NAME == "veloren-html-raw"
TRANSLATED_HTML_BUCKET_NAME == "veloren-html-translated"
GCP_PROJECT == "veloren"

\* The objects Ingest puts under raw-html/.
RawHtmlNames == {FilePath(i, t) : i \in FeedItems, t \in 0..MaxClock}

\* The objects whose creation can trigger Translate, and their buckets.
TranslateNames == RawHtmlNames \cup {PROCESSED_ITEMS_FILE, "notes/readme.txt"}

TranslateBuckets == {RAW_HTML_BUCKET_NAME, "some-other-bucket"}

\* The request main builds from its argument and from Date.now().
Request(bucket, name, now) ==
    [parent              |-> "projects/" \o GCP_PROJECT \o "/locations/global",
     sourceLanguageCode  |-> "en",
     targetLanguageCodes |-> <<"es", "pt-BR">>,
     inputUri            |-> "gs://" \o bucket \o "/" \o name,
     mimeType            |-> "text/html",
     outputUriPrefix     |-> "gs://" \o TRANSLATED_HTML_BUCKET_NAME \o "/"
                                 \o ToString(now) \o "/"]

\* main of Translate for the event (bucket, name), up to
\* await batchTranslateText(request), Date.now() reading now.
TranslateMain(bucket, name, now) ==
    LET request == Request(bucket, name, now)
    IN  tr' = [tr EXCEPT !.pc = "starting",
                         !.deliveries = @ + 1,
                         !.clock = now,
                         !.event = [bucket |-> bucket, name |-> name],
                         !.request = <<request>>,
                         !.requests = @ \cup {request},
                         !.outcome = "none",
                         !.failedAt = "",
                         !.logged = ""]

\* An object is created: main runs to await batchTranslateText(request).
TranslateInvoke ==
    /\ tr.pc \in {"idle", "done"}
    /\ tr.deliveries < MaxDeliveries
    /\ \E bucket \in TranslateBuckets, name \in TranslateNames,
          now \in tr.clock..MaxClock :
         TranslateMain(bucket, name, now)
    /\ UNCHANGED <<budget, ledger, rawStore, orphans, inv, rn, fn>>

\* The names the service may give the operation it starts.
OperationNames ==
    {"test-operation", "projects/veloren/locations/global/operations/1"}

\* batchTranslateText resolves to the operation: main logs its name and
\* awaits operation.promise().
TranslateStarted ==
    /\ tr.pc = "starting"
    /\ \E name \in OperationNames :
         tr' = [tr EXCEPT !.pc = "running",
                          !.logged = "Batch translation operation started: "
                                         \o name]
    /\ UNCHANGED <<budget, ledger, rawStore, orphans, inv, rn, fn>>

\* batchTranslateText rejects: the catch logs, and main returns.
TranslateStartRejected ==
    /\ tr.pc = "starting"
    /\ tr' = [tr EXCEPT !.pc = "done",
                        !.outcome = "fulfilled",
                        !.failedAt = "batchTranslateText",
                        !.logged = "Error starting batch translation operation:"]
    /\ UNCHANGED <<budget, ledger, rawStore, orphans, inv, rn, fn>>

\* operation.promise() resolves: main returns.
TranslateFinished ==
    /\ tr.pc = "running"
    /\ tr' = [tr EXCEPT !.pc = "done",
                        !.outcome = "fulfilled",
                        !.logged = "Batch translation operation finished."]
    /\ UNCHANGED <<budget, ledger, rawStore, orphans, inv, rn, fn>>

\* operation.promise() rejects: the same catch logs, and main returns.
TranslateFailed ==
    /\ tr.pc = "running"
    /\ tr' = [tr EXCEPT !.pc = "done",
                        !.outcome = "fulfilled",
                        !.failedAt = "operation.promise",
                        !.logged = "Error starting batch translation operation:"]
    /\ UNCHANGED <<budget, ledger, rawStore, orphans, inv, rn, fn>>

InitTranslate ==
    /\ IngestOff
    /\ tr = IdleTranslate
    /\ rn = IdleRender
    /\ fn = NoFn

NextTranslate ==
    \/ TranslateInvoke
    \/ TranslateStarted
    \/ TranslateStartRejected
    \/ TranslateFinished
    \/ TranslateFailed

\* Deliveries to Translate, one after another.
SpecTranslate == InitTranslate /\ [][NextTranslate]_vars

----------------------------------------------------------------------------
(* Render: text operations on character sequences.                         *)

LowerSeq ==
    <<"a", "b", "c", "d", "e", "f", "g", "h", "i", "j", "k", "l", "m", "n",
      "o", "p", "q", "r", "s", "t", "u", "v", "w", "x", "y", "z">>

UpperSeq ==
    <<"A", "B", "C", "D", "E", "F", "G", "H", "I", "J", "K", "L", "M", "N",
      "O", "P", "Q", "R", "S", "T", "U", "V", "W", "X", "Y", "Z">>

\* String.prototype.toLowerCase, on one character.
ToLowerCase(c) ==
    IF c \in Upper THEN LowerSeq[CHOOSE i \in 1..26 : UpperSeq[i] = c] ELSE c

\* The characters of the code units 0..127; a control character without a
\* string escape, and the backquote, are written ^<code>.
Ascii ==
    <<"^0", "^1", "^2", "^3", "^4", "^5", "^6", "^7", "^8", "\t", "\n",
      "^11", "\f", "\r", "^14", "^15", "^16", "^17", "^18", "^19", "^20",
      "^21", "^22", "^23", "^24", "^25", "^26", "^27", "^28", "^29", "^30",
      "^31", " ", "!", "\"", "#", "$", "%", "&", "'", "(", ")", "*", "+",
      ",", "-", ".", "/", "0", "1", "2", "3", "4", "5", "6", "7", "8", "9",
      ":", ";", "<", "=", ">", "?", "@", "A", "B", "C", "D", "E", "F", "G",
      "H", "I", "J", "K", "L", "M", "N", "O", "P", "Q", "R", "S", "T", "U",
      "V", "W", "X", "Y", "Z", "[", "\\", "]", "^", "_", "^96", "a", "b",
      "c", "d", "e", "f", "g", "h", "i", "j", "k", "l", "m", "n", "o", "p",
      "q", "r", "s", "t", "u", "v", "w", "x", "y", "z", "{", "|", "}", "~",
      "^127">>

\* The place of the first occurrence of pat in s at or after from, 0 if none
\* (String.prototype.indexOf, counting from 1).
IndexFrom(s, pat, from) ==
    LET hits == {i \in from..(Len(s) - Len(pat) + 1) :
                    SubSeq(s, i, i + Len(pat) - 1) = pat}
    IN  IF hits = {} THEN 0 ELSE CHOOSE i \in hits : \A j \in hits : i <= j

\* The place of the last occurrence of the character c in s, 0 if none.
LastIndexOf(s, c) ==
    LET hits == {i \in 1..Len(s) : s[i] = c}
    IN  IF hits = {} THEN 0 ELSE CHOOSE i \in hits : \A j \in hits : j <= i

\* s.replace(pat, rep) with a string pattern: the first occurrence only.
ReplaceFirst(s, pat, rep) ==
    LET i == IndexFrom(s, pat, 1)
    IN  IF i = 0 THEN s
        ELSE SubSeq(s, 1, i - 1) \o rep \o SubSeq(s, i + Len(pat), Len(s))

TRANSLATIONS_SUFFIX ==
    <<"_", "t", "r", "a", "n", "s", "l", "a", "t", "i", "o", "n", "s", ".",
      "h", "t", "m", "l">>

RAW_PREFIX ==
    <<"v", "e", "l", "o", "r", "e", "n", "-", "h", "t", "m", "l", "-", "r",
      "a", "w", "_", "r", "a", "w", "-", "h", "t", "m", "l", "_">>

\* [a-z]{2,3}(?:-[a-zA-Z]{2,4})?
IsLanguage(l) ==
    \E n \in 2..3 :
        /\ n <= Len(l)
        /\ \A i \in 1..n : l[i] \in Lower
        /\ \/ Len(l) = n
           \/ /\ Len(l) - (n + 1) \in 2..4
              /\ l[n + 1] = "-"
              /\ \A i \in (n + 2)..Len(l) : l[i] \in Lower \cup Upper

\* A match that takes whatever stands between the last "_" and the suffix
\* for the language: /(?:.*\/)?(.*)_([^_]*)_translations\.html$/.
FileMatchAnyTag(filePath) ==
    LET n     == Len(filePath) - Len(TRANSLATIONS_SUFFIX)
        body  == SubSeq(filePath, 1, n)
        u     == LastIndexOf(body, "_")
        rest  == SubSeq(body, 1, u - 1)
        slash == LastIndexOf(rest, "/")
    IN  IF \/ n < 0
           \/ SubSeq(filePath, n + 1, Len(filePath)) # TRANSLATIONS_SUFFIX
           \/ u = 0
        THEN <<>>
        ELSE <<[base     |-> SubSeq(rest, slash + 1, Len(rest)),
                language |-> SubSeq(body, u + 1, n)]>>

\* A pattern without the optional directory group, anchored at both ends:
\* /^(.*)_([a-z]{2,3}(?:-[a-zA-Z]{2,4})?)_translations\.html$/.
FileMatchWholePath(filePath) ==
    LET n    == Len(filePath) - Len(TRANSLATIONS_SUFFIX)
        body == SubSeq(filePath, 1, n)
        u    == LastIndexOf(body, "_")
    IN  IF \/ n < 0
           \/ SubSeq(filePath, n + 1, Len(filePath)) # TRANSLATIONS_SUFFIX
           \/ u = 0
           \/ ~IsLanguage(SubSeq(body, u + 1, n))
        THEN <<>>
        ELSE <<[base     |-> SubSeq(body, 1, u - 1),
                language |-> SubSeq(body, u + 1, n)]>>

\* filePath.match(/(?:.*\/)?(.*)_([a-z]{2,3}(?:-[a-zA-Z]{2,4})?)_translations\.html$/)
\* on a name without line terminators: <<>> for null, else the two groups.
\* The language holds no "_", so it starts after the last "_" before the
\* suffix; the greedy optional group ends at the last "/" before that.
FileMatch(filePath) ==
    LET n     == Len(filePath) - Len(TRANSLATIONS_SUFFIX)
        body  == SubSeq(filePath, 1, n)
        u     == LastIndexOf(body, "_")
        rest  == SubSeq(body, 1, u - 1)
        slash == LastIndexOf(rest, "/")
    IN  IF \/ n < 0
           \/ SubSeq(filePath, n + 1, Len(filePath)) # TRANSLATIONS_SUFFIX
           \/ u = 0
           \/ ~IsLanguage(SubSeq(body, u + 1, n))
        THEN <<>>
        ELSE <<[base     |-> SubSeq(rest, slash + 1, Len(rest)),
                language |-> SubSeq(body, u + 1, n)]>>

\* The first group of the match taken as it is.
OriginalFileNameKept(base) == base

\* fileMatch[1].replace('veloren-html-raw_raw-html_', '')
OriginalFileName(base) == ReplaceFirst(base, RAW_PREFIX, <<>>)

HexSeq ==
    <<"0", "1", "2", "3", "4", "5", "6", "7", "8", "9", "a", "b", "c", "d",
      "e", "f">>

IsHex(c) == \E i \in 1..16 : HexSeq[i] = ToLowerCase(c)

HexVal(c) == (CHOOSE i \in 1..16 : HexSeq[i] = ToLowerCase(c)) - 1

\* The octet the escape %XX at place k of s stands for, -1 if there is no
\* escape there.
OctetAt(s, k) ==
    IF k + 2 <= Len(s) /\ s[k] = "%" /\ IsHex(s[k + 1]) /\ IsHex(s[k + 2])
    THEN 16 * HexVal(s[k + 1]) + HexVal(s[k + 2])
    ELSE -1

\* The length of the UTF-8 sequence a lead octet opens, 0 if it opens none.
Utf8Len(b) ==
    IF b \in 0..127 THEN 1
    ELSE IF b \in 194..223 THEN 2
    ELSE IF b \in 224..239 THEN 3
    ELSE IF b \in 240..244 THEN 4
    ELSE 0

\* The second octet allowed after a lead octet (no overlong form, no
\* surrogate, nothing above U+10FFFF).
SecondOctets(b) ==
    (IF b = 224 THEN 160 ELSE IF b = 240 THEN 144 ELSE 128) ..
    (IF b = 237 THEN 159 ELSE IF b = 244 THEN 143 ELSE 191)

\* A character outside ASCII, written by its code point.
NonAscii(cp) == "U+" \o ToString(cp)

RECURSIVE CodePoint(_, _, _, _)
\* The code point of the n octets escaped from place k on, given the bits
\* acc of the octets before.
CodePoint(s, k, n, acc) ==
    IF n = 0 THEN acc
    ELSE CodePoint(s, k + 3, n - 1, acc * 64 + (OctetAt(s, k) - 128))

RECURSIVE DecodeFrom(_, _, _)
\* Decode of ECMAScript from place k on, with an empty reserved set: a
\* malformed escape or an escape that is not UTF-8 throws URIError.
DecodeFrom(s, k, acc) ==
    IF k > Len(s) THEN [threw |-> FALSE, value |-> acc]
    ELSE IF s[k] # "%" THEN DecodeFrom(s, k + 1, Append(acc, s[k]))
    ELSE LET b == OctetAt(s, k)
             n == Utf8Len(b)
         IN  IF b = -1 \/ n = 0 THEN [threw |-> TRUE, value |-> <<>>]
             ELSE IF n = 1
             THEN DecodeFrom(s, k + 3, Append(acc, Ascii[b + 1]))
             ELSE IF /\ \A j \in 1..(n - 1) : OctetAt(s, k + 3 * j) \in 128..191
                     /\ OctetAt(s, k + 3) \in SecondOctets(b)
             THEN DecodeFrom(s, k + 3 * n,
                      Append(acc,
                          NonAscii(CodePoint(s, k + 3, n - 1,
                              b - (IF n = 2 THEN 192
                                   ELSE IF n = 3 THEN 224 ELSE 240)))))
             ELSE [threw |-> TRUE, value |-> <<>>]

decodeURIComponent(s) == DecodeFrom(s, 1, <<>>)

DATA_TITLE ==
    <<"d", "a", "t", "a", "-", "t", "i", "t", "l", "e", "=", "\"">>

DATA_PUBDATE ==
    <<"d", "a", "t", "a", "-", "p", "u", "b", "d", "a", "t", "e", "=", "\"">>

DATA_URL ==
    <<"d", "a", "t", "a", "-", "u", "r", "l", "=", "\"">>

DATA_COVER ==
    <<"d", "a", "t", "a", "-", "c", "o", "v", "e", "r", "=", "\"">>

\* htmlString.match(/<attribute>="([^"]*)"/): <<>> for null, else the group
\* of the first occurrence, which runs to the next double quote.
AttrMatch(htmlString, attribute) ==
    LET i    == IndexFrom(htmlString, attribute, 1)
        from == i + Len(attribute)
        q    == IndexFrom(htmlString, <<"\"">>, from)
    IN  IF i = 0 \/ q = 0 THEN <<>>
        ELSE <<SubSeq(htmlString, from, q - 1)>>

MARKER_OPEN ==
    <<"<", "d", "i", "v", " ", "s", "t", "y", "l", "e", "=", "\"", "d",
      "i", "s", "p", "l", "a", "y", ":", "n", "o", "n", "e", ";", "\"">>

DIV_CLOSE ==
    <<"<", "/", "d", "i", "v", ">">>

\* htmlString.replace(/<div style="display:none;"[^>]*>[\s\S]*?<\/div>/, '')
CleanHtml(htmlString) ==
    LET i == IndexFrom(htmlString, MARKER_OPEN, 1)
        g == IndexFrom(htmlString, <<">">>, i + Len(MARKER_OPEN))
        c == IndexFrom(htmlString, DIV_CLOSE, g + 1)
    IN  IF i = 0 \/ g = 0 \/ c = 0 THEN htmlString
        ELSE SubSeq(htmlString, 1, i - 1)
                 \o SubSeq(htmlString, c + Len(DIV_CLOSE), Len(htmlString))

Whitespace ==
    {" ", "\t", "\n", "^11", "\f", "\r"} \cup
    {NonAscii(cp) : cp \in {160, 5760, 8232, 8233, 8239, 8287, 12288, 65279}
                             \cup 8192..8202}

\* String.prototype.trim
Trim(s) ==
    LET ink == {i \in 1..Len(s) : s[i] \notin Whitespace}
    IN  IF ink = {} THEN <<>>
        ELSE SubSeq(s, CHOOSE i \in ink : \A j \in ink : i <= j,
                       CHOOSE i \in ink : \A j \in ink : j <= i)

RECURSIVE RunsOf(_, _, _)
\* Every maximal run of characters of blank in s replaced by rep.
RunsOf(s, rep, blank) ==
    IF s = <<>> THEN <<>>
    ELSE IF Head(s) \notin blank
    THEN <<Head(s)>> \o RunsOf(Tail(s), rep, blank)
    ELSE IF Len(s) > 1 /\ s[2] \in blank THEN RunsOf(Tail(s), rep, blank)
    ELSE rep \o RunsOf(Tail(s), rep, blank)

\* s.replace(/\s+/g, rep)
Runs(s, rep) == RunsOf(s, rep, Whitespace)

RECURSIVE TextOf(_, _)
\* The text of an HTML fragment: what stands outside its tags.
TextOf(html, inTag) ==
    IF html = <<>> THEN <<>>
    ELSE IF inTag THEN TextOf(Tail(html), Head(html) # ">")
    ELSE IF Head(html) = "<" THEN TextOf(Tail(html), TRUE)
    ELSE <<Head(html)>> \o TextOf(Tail(html), FALSE)

\* The white space Turndown collapses in a text node: /[ \r\n\t]+/.
HtmlBlank == {" ", "\t", "\n", "\r"}

\* turndownService.turndown on a fragment of one paragraph: the text of the
\* paragraph, each run of HtmlBlank collapsed to one space, the space at
\* the head dropped, and the white space at the end (/\s+$/) removed.
Turndown(html) ==
    LET text == RunsOf(TextOf(html, FALSE), <<" ">>, HtmlBlank)
        body == IF text # <<>> /\ Head(text) = " " THEN Tail(text) ELSE text
        ink  == {i \in 1..Len(body) : body[i] \notin Whitespace}
    IN  IF ink = {} THEN <<>>
        ELSE SubSeq(body, 1, CHOOSE i \in ink : \A j \in ink : j <= i)

\* The characters slugify keeps, after its character map.
SlugAllowed ==
    Lower \cup Upper \cup Digit \cup Whitespace \cup
    {"_", "$", "*", "+", "~", ".", "(", ")", "'", "\"", "!", "-", ":", "@"}

\* slugify's charMap on ASCII.
CharMap(c) ==
    IF c = "$" THEN <<"d", "o", "l", "l", "a", "r">>
    ELSE IF c = "%" THEN <<"p", "e", "r", "c", "e", "n", "t">>
    ELSE IF c = "&" THEN <<"a", "n", "d">>
    ELSE IF c = "<" THEN <<"l", "e", "s", "s">>
    ELSE IF c = ">" THEN <<"g", "r", "e", "a", "t", "e", "r">>
    ELSE IF c = "|" THEN <<"o", "r">>
    ELSE <<c>>

RECURSIVE SlugMapped(_)
\* slugify's reduce: each character through the map, the replacement
\* character turned into a space, what is not allowed removed.
SlugMapped(s) ==
    IF s = <<>> THEN <<>>
    ELSE LET m    == CharMap(Head(s))
             a    == IF m = <<"-">> THEN <<" ">> ELSE m
             keep(c) == c \in SlugAllowed
         IN  SelectSeq(a, keep) \o SlugMapped(Tail(s))

\* slugify(title, { lower: true })
slugify(title) ==
    LET slug == Runs(Trim(SlugMapped(title)), <<"-">>)
    IN  [i \in 1..Len(slug) |-> ToLowerCase(slug[i])]

----------------------------------------------------------------------------
(* Render-Markdown and Render-JSON: main of each.                          *)

MARKDOWN_BUCKET_NAME == "veloren-markdown"
CONTENT_BUCKET_NAME == "veloren-content"

RenderBuckets == {TRANSLATED_HTML_BUCKET_NAME, "some-other-bucket"}

Stages == {"markdown", "json"}

\* The names of the objects whose creation triggers the Render stages: what
\* the translation API writes under its output prefix, and names that are
\* near misses of it.
RenderDirs == {<<>>, <<"0", "/">>}

RenderBases ==
    {<<"a">>,
     RAW_PREFIX \o <<"P", "o", "s", "t", "_", "1", "-", "0">>}

RenderLanguages ==
    {<<"e", "s">>, <<"p", "t", "-", "B", "R">>, <<"E", "S">>, <<"e">>}

RenderTails ==
    {TRANSLATIONS_SUFFIX,
     <<"_", "t", "r", "a", "n", "s", "l", "a", "t", "i", "o", "n", "s", ".",
       "h", "t", "m">>}

RenderNames ==
    {d \o b \o <<"_">> \o l \o t :
        d \in RenderDirs, b \in RenderBases, l \in RenderLanguages,
        t \in RenderTails}
    \cup {<<"0", "/", "i", "n", "d", "e", "x", ".", "c", "s", "v">>, <<"n", "o", "-", "l", "a", "n", "g", "u", "a", "g", "e", "-", "p", "r", "e", "f", "i", "x", ".", "h", "t", "m", "l">>}

\* n spaces.
Spaces(n) == [i \in 1..n |-> " "]

\* The template of Ingest, character by character.
HtmlContent(title, pubDate, url, content) ==
    <<"\n">> \o Spaces(8) \o MARKER_OPEN
        \o <<"\n">> \o Spaces(13) \o DATA_TITLE \o title \o <<"\"">>
        \o <<"\n">> \o Spaces(13) \o DATA_PUBDATE \o pubDate \o <<"\"">>
        \o <<"\n">> \o Spaces(13) \o DATA_URL \o url \o <<"\"", ">">>
        \o <<"\n">> \o Spaces(8) \o DIV_CLOSE
        \o <<"\n">> \o Spaces(8) \o content \o <<"\n">> \o Spaces(6)

\* htmlContent of Ingest for the four values of body, each value standing
\* as one element among the characters of the template.
RawHtml(body) ==
    HtmlContent(<<body.title>>, <<body.pubDate>>, <<body.url>>,
                <<body.content>>)

\* The contents a translated object can have: the template of Ingest with
\* a plain, an escaped and an unescapable title, a body without marker, and
\* a marker with the title alone.
Pages ==
    {HtmlContent(<<"P", "o", "s", "t", " ", "1">>, <<"2024-01-01">>, <<"http://e.com/1">>,
                 <<"<", "p", ">", "1", "<", "/", "p", ">">>),
     HtmlContent(<<"A", "%", "2", "0", "B">>, <<"2024-01-02">>, <<"http://e.com/2">>,
                 <<"<", "p", ">", "2", "<", "/", "p", ">">>),
     HtmlContent(<<"1", "0", "0", "%">>, <<"2024-01-03">>, <<"http://e.com/3">>,
                 <<"<", "p", ">", "3", "<", "/", "p", ">">>),
     <<"<", "p", ">", "4", "<", "/", "p", ">">>,
     MARKER_OPEN \o <<" ">> \o DATA_TITLE \o <<"T", "\"", ">">> \o DIV_CLOSE
         \o <<"<", "p", ">", "5", "<", "/", "p", ">">>}

UNTITLED == <<"U", "n", "t", "i", "t", "l", "e", "d", " ", "P", "o", "s", "t">>

NO_URL == <<"N", "o", " ", "U", "R", "L">>

\* The metadata both stages read from the content: the title decoded, the
\* date, and the groups of data-url and data-cover as matched.
Metadata(htmlString, now) ==
    LET titleMatch   == AttrMatch(htmlString, DATA_TITLE)
        pubDateMatch == AttrMatch(htmlString, DATA_PUBDATE)
        title        == IF titleMatch # <<>>
                        THEN decodeURIComponent(titleMatch[1])
                        ELSE [threw |-> FALSE, value |-> UNTITLED]
    IN  [threw   |-> title.threw,
         title   |-> title.value,
         pubDate |-> IF pubDateMatch # <<>> THEN pubDateMatch[1]
                     ELSE <<ToISOString(now)>>,
         url     |-> AttrMatch(htmlString, DATA_URL),
         cover   |-> AttrMatch(htmlString, DATA_COVER)]

\* A save of Render-Markdown into the bucket of the object that triggered
\* it.
MarkdownWriteInPlace(htmlString, m, base, language) ==
    [bucket      |-> TRANSLATED_HTML_BUCKET_NAME,
     path        |-> Flat(language) \o "/" \o Flat(OriginalFileName(base)) \o ".md",
     contentType |-> "text/markdown",
     body        |-> [frontmatter |->
                         [title      |-> m.title,
                          date       |-> m.pubDate,
                          source_url |-> IF m.url # <<>> THEN m.url[1] ELSE NO_URL,
                          language   |-> language],
                      markdown |-> Turndown(CleanHtml(htmlString))]]

\* A save of Render-Markdown under the title read from the content.
MarkdownWriteByTitle(htmlString, m, base, language) ==
    [bucket      |-> MARKDOWN_BUCKET_NAME,
     path        |-> Flat(language) \o "/" \o Flat(m.title) \o ".md",
     contentType |-> "text/markdown",
     body        |-> [frontmatter |->
                         [title      |-> m.title,
                          date       |-> m.pubDate,
                          source_url |-> IF m.url # <<>> THEN m.url[1] ELSE NO_URL,
                          language   |-> language],
                      markdown |-> Turndown(CleanHtml(htmlString))]]

\* What Render-Markdown saves: the object handed to yaml.dump between the
\* two --- lines, and the Markdown after them.
MarkdownWrite(htmlString, m, base, language) ==
    [bucket      |-> MARKDOWN_BUCKET_NAME,
     path        |-> Flat(language) \o "/" \o Flat(OriginalFileName(base)) \o ".md",
     contentType |-> "text/markdown",
     body        |-> [frontmatter |->
                         [title      |-> m.title,
                          date       |-> m.pubDate,
                          source_url |-> IF m.url # <<>> THEN m.url[1] ELSE NO_URL,
                          language   |-> language],
                      markdown |-> Turndown(CleanHtml(htmlString))]]

\* What Render-JSON saves: the object handed to JSON.stringify, a field
\* that is undefined being <<>>.
JsonWrite(htmlString, m, base, language, now) ==
    [bucket      |-> CONTENT_BUCKET_NAME,
     path        |-> Flat(language) \o "/" \o ToString(now) \o "/"
                         \o Flat(OriginalFileName(base)) \o ".json",
     contentType |-> "application/json",
     body        |-> [title      |-> m.title,
                      date       |-> m.pubDate,
                      source_url |-> m.url,
                      language   |-> language,
                      content    |-> CleanHtml(htmlString),
                      cover      |-> m.cover,
                      slug       |-> slugify(m.title)]]

\* The message of the Error main throws from its catch.
RenderError(stage, filePath, error) ==
    (IF stage = "markdown" THEN "Error converting HTML to Markdown for "
     ELSE "Error converting HTML to JSON for ")
        \o Flat(filePath) \o ": " \o error

\* A catch that logs the error and lets main return.
RenderCatchLogged(stage, filePath, error) ==
    [outcome |-> "fulfilled", error |-> RenderError(stage, filePath, error)]

\* catch (error) { throw new Error(...) }: the promise of main is rejected.
RenderCatch(stage, filePath, error) ==
    [outcome |-> "rejected", error |-> RenderError(stage, filePath, error)]

NO_FILE_DATA == "No file data found in the event."

\* The events a Render stage may be given: one without file data (<<>>),
\* or one naming an object of a bucket.
RenderEvents ==
    {<<>>} \cup {<<[bucket |-> bucketName, name |-> filePath]>> :
                    bucketName \in RenderBuckets, filePath \in RenderNames}

\* main of a Render stage for an event whose data is file (<<>> when the
\* event has none), up to its throw, its return or to await download().
\* The throw for missing data stands before the try: the promise of main
\* is rejected with that message.
RenderMain(stage, file) ==
    LET bucketName == IF file = <<>> THEN "" ELSE file[1].bucket
        filePath == IF file = <<>> THEN <<>> ELSE file[1].name
        fileMatch == FileMatch(filePath)
        begun == [rn EXCEPT !.stage = stage,
                            !.deliveries = @ + 1,
                            !.data = file # <<>>,
                            !.event = [bucket |-> bucketName,
                                       name |-> filePath],
                            !.match = <<>>,
                            !.downloads = 0,
                            !.write = <<>>,
                            !.outcome = "none",
                            !.failedAt = "",
                            !.error = "",
                            !.before = [markdown |-> rn.markdown,
                                        content |-> rn.content]]
    IN  IF file = <<>>
        THEN rn' = [begun EXCEPT !.pc = "done",
                                 !.outcome = "rejected",
                                 !.error = NO_FILE_DATA]
        ELSE IF bucketName # TRANSLATED_HTML_BUCKET_NAME \/ fileMatch = <<>>
        THEN rn' = [begun EXCEPT !.pc = "done", !.outcome = "fulfilled"]
        ELSE rn' = [begun EXCEPT !.pc = "downloading",
                                 !.match = fileMatch,
                                 !.downloads = 1]

\* An event is delivered to the stage: main runs to its throw, its return,
\* or to await download().
RenderInvoke(stage) ==
    /\ rn.pc \in {"idle", "done"}
    /\ rn.deliveries < MaxRenders
    /\ \E file \in RenderEvents : RenderMain(stage, file)
    /\ UNCHANGED <<budget, ledger, rawStore, orphans, inv, tr, fn>>

\* download() rejects: the catch throws.
RenderDownloadRejected ==
    /\ rn.pc = "downloading"
    /\ LET caught == RenderCatch(rn.stage, rn.event.name,
                                 "Error: Storage read error")
       IN  rn' = [rn EXCEPT !.pc = "done",
                            !.failedAt = "download",
                            !.outcome = caught.outcome,
                            !.error = caught.error]
    /\ UNCHANGED <<budget, ledger, rawStore, orphans, inv, tr, fn>>

\* download() resolves: main reads the metadata, cleans and converts the
\* content and runs to await save(), unless decodeURIComponent throws.
RenderDownloadResolved ==
    /\ rn.pc = "downloading"
    /\ \E htmlString \in Pages :
       \E t1 \in (IF AttrMatch(htmlString, DATA_PUBDATE) = <<>>
                  THEN rn.clock..MaxClock ELSE {rn.clock}) :
       \E t2 \in (IF rn.stage = "json" THEN t1..MaxClock ELSE {t1}) :
         LET m == Metadata(htmlString, t1)
             base == rn.match[1].base
             language == rn.match[1].language
             caught == RenderCatch(rn.stage, rn.event.name,
                                   "URIError: URI malformed")
         IN  IF m.threw
             THEN rn' = [rn EXCEPT !.pc = "done",
                                   !.clock = t1,
                                   !.failedAt = "conversion",
                                   !.outcome = caught.outcome,
                                   !.error = caught.error]
             ELSE rn' = [rn EXCEPT !.pc = "writing",
                                   !.clock = t2,
                                   !.write =
                                       IF rn.stage = "markdown"
                                       THEN <<MarkdownWrite(htmlString, m, base,
                                                            language)>>
                                       ELSE <<JsonWrite(htmlString, m, base,
                                                        language, t2)>>]
    /\ UNCHANGED <<budget, ledger, rawStore, orphans, inv, tr, fn>>

\* save() resolves: the object is in its bucket, and main returns.
RenderWriteResolved ==
    /\ rn.pc = "writing"
    /\ LET w == rn.write[1]
       IN  rn' = [rn EXCEPT !.pc = "done",
                            !.outcome = "fulfilled",
                            !.markdown = IF w.bucket = MARKDOWN_BUCKET_NAME
                                         THEN Put(@, w.path, w.body) ELSE @,
                            !.content = IF w.bucket = CONTENT_BUCKET_NAME
                                        THEN Put(@, w.path, w.body) ELSE @]
    /\ UNCHANGED <<budget, ledger, rawStore, orphans, inv, tr, fn>>

\* save() rejects: the catch throws.
RenderWriteRejected ==
    /\ rn.pc = "writing"
    /\ LET caught == RenderCatch(rn.stage, rn.event.name,
                                 "Error: Storage write error")
       IN  rn' = [rn EXCEPT !.pc = "done",
                            !.failedAt = "write",
                            !.outcome = caught.outcome,
                            !.error = caught.error]
    /\ UNCHANGED <<budget, ledger, rawStore, orphans, inv, tr, fn>>

\* What an earlier delivery for a_es_translations.html can have left in
\* the two buckets.
PriorPage == CHOOSE p \in Pages : AttrMatch(p, DATA_URL) # <<>> /\ ~Metadata(p, 0).threw

PriorMarkdown ==
    LET w == MarkdownWrite(PriorPage, Metadata(PriorPage, 0), <<"a">>, <<"e", "s">>)
    IN  Put(<<>>, w.path, w.body)

PriorContent ==
    LET w == JsonWrite(PriorPage, Metadata(PriorPage, 0), <<"a">>, <<"e", "s">>, 0)
    IN  Put(<<>>, w.path, w.body)

\* One delivery, the buckets empty or as an earlier delivery left them.
InitRender ==
    /\ IngestOff
    /\ tr = IdleTranslate
    /\ \E m \in {<<>>, PriorMarkdown}, c \in {<<>>, PriorContent} :
         rn = [IdleRender EXCEPT !.markdown = m, !.content = c,
                                 !.before = [markdown |-> m, content |-> c]]
    /\ fn = NoFn

NextRender ==
    \/ \E stage \in Stages : RenderInvoke(stage)
    \/ RenderDownloadRejected
    \/ RenderDownloadResolved
    \/ RenderWriteResolved
    \/ RenderWriteRejected

\* Deliveries to the Render stages, one after another.
SpecRender == InitRender /\ [][NextRender]_vars

----------------------------------------------------------------------------
(* The marker of Ingest read back by the Render stages.                    *)

MaxTextLen == 2

\* Characters a title, a date or a link can hold.
MetaAlphabet == {"a", "\"", "%", ">", "&"}

Texts == SeqsUpTo(MetaAlphabet, MaxTextLen) \ {<<>>}

PlainMeta ==
    [title   |-> <<"P", "o", "s", "t", " ", "1">>,
     pubDate |-> <<"2", "0", "2", "4", "-", "0", "1", "-", "0", "1">>,
     url     |-> <<"h", "t", "t", "p", ":", "/", "/", "e", ".", "c", "o", "m", "/", "1">>,
     content |-> <<"<", "p", ">", "1", "<", "/", "p", ">">>]

\* What a Render stage makes of a content: the metadata fields of the
\* object it would save, or the error of decodeURIComponent.
Decoded(stage, htmlString, now) ==
    LET m == Metadata(htmlString, now)
    IN  IF m.threw THEN [threw |-> TRUE]
        ELSE IF stage = "markdown"
        THEN LET f == MarkdownWrite(htmlString, m, <<"a">>, <<"e", "s">>).body.frontmatter
             IN  [threw |-> FALSE, title |-> f.title, date |-> f.date,
                  source_url |-> <<f.source_url>>,
                  content |-> CleanHtml(htmlString)]
        ELSE LET j == JsonWrite(htmlString, m, <<"a">>, <<"e", "s">>, now).body
             IN  [threw |-> FALSE, title |-> j.title, date |-> j.date,
                  source_url |-> j.source_url,
                  content |-> j.content]

\* Ingest sets an item's title, date and link into its template; one of
\* the three is any text, the others are plain.
MarkerEncode ==
    /\ fn.op = "none"
    /\ \E field \in {"title", "pubDate", "url"}, text \in Texts :
         LET meta == [PlainMeta EXCEPT ![field] = text]
         IN  fn' = [op   |-> "encoded",
                    meta |-> meta,
                    html |-> HtmlContent(meta.title, meta.pubDate, meta.url,
                                         meta.content)]
    /\ UNCHANGED <<budget, ledger, rawStore, orphans, inv, tr, rn>>

\* A Render stage reads the metadata of that content.
MarkerDecode(stage) ==
    /\ fn.op = "encoded"
    /\ \E now \in 0..MaxClock :
         fn' = [op      |-> "decoded",
                stage   |-> stage,
                meta    |-> fn.meta,
                html    |-> fn.html,
                decoded |-> Decoded(stage, fn.html, now)]
    /\ UNCHANGED <<budget, ledger, rawStore, orphans, inv, tr, rn>>

InitMetadata ==
    /\ IngestOff
    /\ tr = IdleTranslate
    /\ rn = IdleRender
    /\ fn = NoFn

NextMetadata ==
    \/ MarkerEncode
    \/ \E stage \in Stages : MarkerDecode(stage)

\* The marker written by Ingest and read by a Render stage.
SpecMetadata == InitMetadata /\ [][NextMetadata]_vars

----------------------------------------------------------------------------
(* The name of a translated object, built as the filename contract gives  *)
(* it and parsed by a Render stage.                                       *)

MaxBaseLen == 2

NameAlphabet == {"a", "_", "-"}

\* Base names: short ones over the alphabet, and the names the translation
\* API derives from an object of the raw-HTML area (bucket, folder, file).
BaseNames ==
    (SeqsUpTo(NameAlphabet, MaxBaseLen) \ {<<>>})
    \cup {RAW_PREFIX \o b : b \in SeqsUpTo(NameAlphabet, 1) \ {<<>>}}

\* Language tags of the form the pattern asks for.
LanguageTags ==
    {<<"e", "s">>, <<"f", "i", "l">>, <<"p", "t", "-", "B", "R">>,
     <<"z", "h", "-", "H", "a", "n", "t">>}

\* What stands before the "/" that precedes the base name.
NamePrefixes ==
    {<<"0">>, <<"o", "u", "t", "/", "1">>, <<"a", "_", "e", "s", "/", "b">>}

TranslatedPath(prefix, base, language) ==
    prefix \o <<"/">> \o base \o <<"_">> \o language \o TRANSLATIONS_SUFFIX

\* The identity a Render stage takes from the name of the object: <<>> when
\* the name is skipped, else originalFileName and language.
Identity(filePath) ==
    LET fileMatch == FileMatch(filePath)
    IN  IF fileMatch = <<>> THEN <<>>
        ELSE <<[originalFileName |-> OriginalFileName(fileMatch[1].base),
                language         |-> fileMatch[1].language]>>

NameBuild ==
    /\ fn.op = "none"
    /\ \E prefix \in NamePrefixes, base \in BaseNames,
          language \in LanguageTags :
            fn' = [op       |-> "named",
                   base     |-> base,
                   language |-> language,
                   path     |-> TranslatedPath(prefix, base, language)]
    /\ UNCHANGED <<budget, ledger, rawStore, orphans, inv, tr, rn>>

NameParse(stage) ==
    /\ fn.op = "named"
    /\ fn' = [op       |-> "parsed",
              stage    |-> stage,
              base     |-> fn.base,
              language |-> fn.language,
              path     |-> fn.path,
              identity |-> Identity(fn.path)]
    /\ UNCHANGED <<budget, ledger, rawStore, orphans, inv, tr, rn>>

InitName ==
    /\ IngestOff
    /\ tr = IdleTranslate
    /\ rn = IdleRender
    /\ fn = NoFn

NextName ==
    \/ NameBuild
    \/ \E stage \in Stages : NameParse(stage)

\* The name of a translated object, built and parsed.
SpecName == InitName /\ [][NextName]_vars

----------------------------------------------------------------------------
(* The ledger saved by saveProcessedItems and loaded by getProcessedItems. *)

MaxLinkLen == 2

\* A code unit above 127, written by its number; 55357 is a high
\* surrogate, which stands alone wherever it occurs in these links.
LinkAlphabet == {"a", "\"", "\\", ",", "\n", NonAscii(55357)}

\* Link strings, character by character.
LinkTexts == SeqsUpTo(LinkAlphabet, MaxLinkLen)

\* Sets of at most two links, in the order of their insertion.
LinkSets ==
    {<<>>} \cup {<<a>> : a \in LinkTexts}
           \cup {<<a, b>> : <<a, b>> \in {x \in LinkTexts \X LinkTexts :
                                              x[1] # x[2]}}

\* The code unit of a character of Ascii.
CharCode(c) == (CHOOSE k \in 1..128 : Ascii[k] = c) - 1

\* Buffer.from(text, 'utf8') and buffer.toString('utf8'), for text of the
\* code units 0..127: one octet for each character.
Utf8Encode(text) == [i \in 1..Len(text) |-> CharCode(text[i])]

Utf8Decode(octets) == [i \in 1..Len(octets) |-> Ascii[octets[i] + 1]]

\* The surrogate code units 55296..57343, the high ones first.
SurrogateSeq == [k \in 1..2048 |-> NonAscii(55295 + k)]

Surrogates == {SurrogateSeq[k] : k \in 1..2048}

SurrogateCode(c) == 55295 + (CHOOSE k \in 1..2048 : SurrogateSeq[k] = c)

IsHighSurrogate(c) == c \in Surrogates /\ SurrogateCode(c) < 56320

IsLowSurrogate(c) == c \in Surrogates /\ SurrogateCode(c) >= 56320

\* What JSON.stringify writes for one code unit of a string that is not
\* half of a surrogate pair.
JsonEscape(c) ==
    IF c \in Surrogates
    THEN <<"\\", "u", HexSeq[(SurrogateCode(c) \div 4096) + 1],
           HexSeq[((SurrogateCode(c) \div 256) % 16) + 1],
           HexSeq[((SurrogateCode(c) \div 16) % 16) + 1],
           HexSeq[(SurrogateCode(c) % 16) + 1]>>
    ELSE IF c = "\"" THEN <<"\\", "\"">>
    ELSE IF c = "\\" THEN <<"\\", "\\">>
    ELSE IF c = "^8" THEN <<"\\", "b">>
    ELSE IF c = "\t" THEN <<"\\", "t">>
    ELSE IF c = "\n" THEN <<"\\", "n">>
    ELSE IF c = "\f" THEN <<"\\", "f">>
    ELSE IF c = "\r" THEN <<"\\", "r">>
    ELSE IF CharCode(c) < 32
         THEN <<"\\", "u", "0", "0", HexSeq[(CharCode(c) \div 16) + 1],
                HexSeq[(CharCode(c) % 16) + 1]>>
    ELSE <<c>>

\* A string written between quotes with nothing escaped.
JsonQuoteRaw(str) == <<"\"">> \o str \o <<"\"">>

RECURSIVE JsonEscaped(_)
\* QuoteJSONString: code point by code point, a surrogate pair written as
\* it is and a surrogate without its partner escaped.
JsonEscaped(str) ==
    IF str = <<>> THEN <<>>
    ELSE IF /\ Len(str) > 1
            /\ IsHighSurrogate(str[1])
            /\ IsLowSurrogate(str[2])
    THEN <<str[1], str[2]>> \o JsonEscaped(SubSeq(str, 3, Len(str)))
    ELSE JsonEscape(Head(str)) \o JsonEscaped(Tail(str))

\* JSON.stringify of a string.
JsonQuote(str) == <<"\"">> \o JsonEscaped(str) \o <<"\"">>

RECURSIVE JsonJoin(_)
JsonJoin(array) ==
    IF array = <<>> THEN <<>>
    ELSE IF Len(array) = 1 THEN JsonQuote(array[1])
    ELSE JsonQuote(array[1]) \o <<",">> \o JsonJoin(Tail(array))

\* JSON.stringify of an array of strings.
JsonStringify(array) == <<"[">> \o JsonJoin(array) \o <<"]">>

JsonFail == [ok |-> FALSE, value |-> <<>>, next |-> 0]

RECURSIVE JsonSkip(_, _)
\* The place of the first character at or after i that is not white space.
JsonSkip(text, i) ==
    IF i <= Len(text) /\ text[i] \in {" ", "\t", "\n", "\r"}
    THEN JsonSkip(text, i + 1) ELSE i

RECURSIVE JsonString(_, _, _)
\* The string whose opening quote stands before place i: its value and the
\* place after its closing quote.
JsonString(text, i, acc) ==
    IF i > Len(text) THEN JsonFail
    ELSE IF text[i] = "\"" THEN [ok |-> TRUE, value |-> acc, next |-> i + 1]
    ELSE IF text[i] = "\\"
    THEN IF i + 1 > Len(text) THEN JsonFail
         ELSE LET e == text[i + 1]
              IN  IF e \in {"\"", "\\", "/"}
                  THEN JsonString(text, i + 2, Append(acc, e))
                  ELSE IF e = "b" THEN JsonString(text, i + 2, Append(acc, "^8"))
                  ELSE IF e = "t" THEN JsonString(text, i + 2, Append(acc, "\t"))
                  ELSE IF e = "n" THEN JsonString(text, i + 2, Append(acc, "\n"))
                  ELSE IF e = "f" THEN JsonString(text, i + 2, Append(acc, "\f"))
                  ELSE IF e = "r" THEN JsonString(text, i + 2, Append(acc, "\r"))
                  ELSE IF /\ e = "u"
                          /\ i + 5 <= Len(text)
                          /\ \A k \in (i + 2)..(i + 5) : IsHex(text[k])
                  THEN LET unit == 4096 * HexVal(text[i + 2])
                                   + 256 * HexVal(text[i + 3])
                                   + 16 * HexVal(text[i + 4])
                                   + HexVal(text[i + 5])
                       IN  JsonString(text, i + 6,
                               Append(acc, IF unit < 128 THEN Ascii[unit + 1]
                                           ELSE NonAscii(unit)))
                  ELSE JsonFail
    ELSE IF CharCode(text[i]) < 32 THEN JsonFail
    ELSE JsonString(text, i + 1, Append(acc, text[i]))

RECURSIVE JsonElements(_, _, _)
\* The elements of an array from the one that starts at place i on.
JsonElements(text, i, acc) ==
    IF i > Len(text) \/ text[i] # "\"" THEN JsonFail
    ELSE LET str == JsonString(text, i + 1, <<>>)
             k   == JsonSkip(text, str.next)
         IN  IF ~str.ok \/ k > Len(text) THEN JsonFail
             ELSE IF text[k] = ","
             THEN JsonElements(text, JsonSkip(text, k + 1),
                               Append(acc, str.value))
             ELSE IF text[k] = "]" /\ JsonSkip(text, k + 1) = Len(text) + 1
             THEN [ok |-> TRUE, value |-> Append(acc, str.value),
                   next |-> Len(text) + 1]
             ELSE JsonFail

\* JSON.parse of a text of the code units 0..127 that holds an array of
\* strings, or that is no JSON text: threw for a SyntaxError.  A string
\* is read code unit by code unit, an escape \uXXXX giving the unit XXXX.
JsonParse(text) ==
    LET i == JsonSkip(text, 1)
        j == JsonSkip(text, i + 1)
        r == IF i > Len(text) \/ text[i] # "[" \/ j > Len(text) THEN JsonFail
             ELSE IF text[j] = "]"
             THEN IF JsonSkip(text, j + 1) = Len(text) + 1
                  THEN [ok |-> TRUE, value |-> <<>>, next |-> Len(text) + 1]
                  ELSE JsonFail
             ELSE JsonElements(text, j, <<>>)
    IN  [threw |-> ~r.ok, value |-> r.value]

\* saveProcessedItems: the object it hands to file.save.
saveProcessedItems(processedItems) ==
    LET urlsArray == processedItems
    IN  [content     |-> Utf8Encode(JsonStringify(urlsArray)),
         contentType |-> "application/json"]

\* getProcessedItems when the download resolves with the octets content.
LoadProcessedItems(content) ==
    LET parsed == JsonParse(Utf8Decode(content))
    IN  getProcessedItems(IF parsed.threw THEN "corrupt" ELSE "ok",
                          parsed.value)

LedgerSave ==
    /\ fn.op = "none"
    /\ \E processedItems \in LinkSets :
         fn' = [op   |-> "saved",
                set  |-> processedItems,
                file |-> saveProcessedItems(processedItems)]
    /\ UNCHANGED <<budget, ledger, rawStore, orphans, inv, tr, rn>>

LedgerLoad ==
    /\ fn.op = "saved"
    /\ fn' = [op     |-> "loaded",
              set    |-> fn.set,
              file   |-> fn.file,
              loaded |-> LoadProcessedItems(fn.file.content)]
    /\ UNCHANGED <<budget, ledger, rawStore, orphans, inv, tr, rn>>

InitLedger ==
    /\ IngestOff
    /\ tr = IdleTranslate
    /\ rn = IdleRender
    /\ fn = NoFn

NextLedger ==
    \/ LedgerSave
    \/ LedgerLoad

\* A set of links saved and loaded again.
SpecLedger == InitLedger /\ [][NextLedger]_vars

----------------------------------------------------------------------------
(* The same event delivered again to Translate or to a Render stage.      *)

MaxRedeliveries == 1

\* The first delivery to Translate; the Render stages stay idle.
TranslateFirst ==
    /\ tr.deliveries = 0
    /\ rn.deliveries = 0
    /\ TranslateInvoke

\* The event of the delivery before is delivered to Translate again.
TranslateRedeliver ==
    /\ tr.pc = "done"
    /\ tr.deliveries \in 1..MaxRedeliveries
    /\ \E now \in tr.clock..MaxClock :
         TranslateMain(tr.event.bucket, tr.event.name, now)
    /\ UNCHANGED <<budget, ledger, rawStore, orphans, inv, rn, fn>>

\* The first delivery to a Render stage; Translate stays idle.
RenderFirst(stage) ==
    /\ rn.deliveries = 0
    /\ tr.deliveries = 0
    /\ RenderInvoke(stage)

\* The event of the delivery before is delivered to the same stage again.
RenderRedeliver ==
    /\ rn.pc = "done"
    /\ rn.deliveries \in 1..MaxRedeliveries
    /\ RenderMain(rn.stage, IF rn.data THEN <<rn.event>> ELSE <<>>)
    /\ UNCHANGED <<budget, ledger, rawStore, orphans, inv, tr, fn>>

InitRetrigger ==
    /\ IngestOff
    /\ tr = IdleTranslate
    /\ rn = IdleRender
    /\ fn = NoFn

NextRetrigger ==
    \/ TranslateFirst
    \/ TranslateRedeliver
    \/ TranslateStarted
    \/ TranslateStartRejected
    \/ TranslateFinished
    \/ TranslateFailed
    \/ \E stage \in Stages : RenderFirst(stage)
    \/ RenderRedeliver
    \/ RenderDownloadRejected
    \/ RenderDownloadResolved
    \/ RenderWriteResolved
    \/ RenderWriteRejected

\* One event delivered to one stage, and delivered again.
SpecRetrigger == InitRetrigger /\ [][NextRetrigger]_vars

----------------------------------------------------------------------------
(* The path Ingest gives the object of an item, from its title and the    *)
(* reading of the clock.                                                  *)

MaxTitleLen == 2

TitleAlphabet == {"a", "Z", "7", " ", "-", "_", "."}

\* Titles: none, short ones, and ones about as long as the slug may be,
\* all letters or with a space where the slug is cut.
Titles ==
    SeqsUpTo(TitleAlphabet, MaxTitleLen)
    \cup {[i \in 1..n |-> "a"] : n \in (SlugMaxLen - 1)..(SlugMaxLen + 1)}
    \cup {[i \in 1..n |-> IF i >= SlugMaxLen THEN " " ELSE "a"] :
              n \in (SlugMaxLen - 1)..(SlugMaxLen + 1)}

\* One callback of newItems.map names its object.
PathBuild ==
    /\ fn.op = "none"
    /\ \E title \in Titles, now \in 0..MaxClock :
         LET item == Item(title, "http://example.com/post1", "", "<p>1</p>", "")
         IN  fn' = [op    |-> "path",
                    title |-> TitleOf(item),
                    now   |-> now,
                    slug  |-> Slug(TitleOf(item)),
                    path  |-> FilePath(item, now)]
    /\ UNCHANGED <<budget, ledger, rawStore, orphans, inv, tr, rn>>

\* The object is written under that path.
PathWrite ==
    /\ fn.op = "path"
    /\ fn' = [fn EXCEPT !.op = "written"]
    /\ rawStore' = Put(rawStore, fn.path, fn.title)
    /\ UNCHANGED <<budget, ledger, orphans, inv, tr, rn>>

InitPath ==
    /\ IngestOff
    /\ tr = IdleTranslate
    /\ rn = IdleRender
    /\ fn = NoFn

NextPath ==
    \/ PathBuild
    \/ PathWrite

\* The path of one item write.
SpecPath == InitPath /\ [][NextPath]_vars

----------------------------------------------------------------------------
(* The pipeline: one of the stages runs, the others stay idle.            *)

\* Ingest is invoked; Translate and the Render stages stay idle.
IngestAlone ==
    /\ tr.deliveries = 0
    /\ rn.deliveries = 0
    /\ Start(1)

\* An object is delivered to Translate; the other stages stay idle.
TranslateAlone ==
    /\ inv[1].pc = "idle"
    /\ rn.deliveries = 0
    /\ tr.deliveries = 0
    /\ TranslateInvoke

\* An object is delivered to a Render stage; the other stages stay idle.
RenderAlone(stage) ==
    /\ inv[1].pc = "idle"
    /\ tr.deliveries = 0
    /\ rn.deliveries = 0
    /\ RenderInvoke(stage)

\* Nothing is stored.
InitPipeline ==
    /\ budget = 1
    /\ ledger = NoLedger
    /\ rawStore = <<>>
    /\ orphans = EmptyBag
    /\ inv = [p \in Procs |-> IdleInv]
    /\ tr = IdleTranslate
    /\ rn = IdleRender
    /\ fn = NoFn

NextPipeline ==
    \/ IngestAlone
    \/ FetchRejected(1)
    \/ FetchResolved(1)
    \/ LedgerRead(1)
    \/ \E k \in 1..MaxFeedLen : WriteResolved(1, k)
    \/ \E k \in 1..MaxFeedLen : WriteRejected(1, k)
    \/ SaveResolved(1)
    \/ SaveRejected(1)
    \/ TranslateAlone
    \/ TranslateStarted
    \/ TranslateStartRejected
    \/ TranslateFinished
    \/ TranslateFailed
    \/ \E stage \in Stages : RenderAlone(stage)
    \/ RenderDownloadRejected
    \/ RenderDownloadResolved
    \/ RenderWriteResolved
    \/ RenderWriteRejected

SpecPipeline == InitPipeline /\ [][NextPipeline]_vars

----------------------------------------------------------------------------
(* The content Ingest wraps, with the marker removed by a Render stage.   *)

MaxBodyLen == 2

BodyAlphabet == {"a", "<", ">"}

\* Bodies of items: short texts, a paragraph, and bodies with a div of
\* their own.
Bodies ==
    SeqsUpTo(BodyAlphabet, MaxBodyLen)
    \cup {<<"<", "p", ">", "1", "<", "/", "p", ">">>,
          <<"<", "d", "i", "v", ">", "x">> \o DIV_CLOSE,
          MARKER_OPEN \o <<">", "y">> \o DIV_CLOSE}

\* Titles of items: plain, and with the characters that end a tag.
StripTitles ==
    {<<"P", "o", "s", "t", " ", "1">>,
     <<"a", ">", "b">>,
     <<"a">> \o DIV_CLOSE,
     <<"a", ">">> \o DIV_CLOSE}

\* Ingest wraps the body of an item.
StripWrap ==
    /\ fn.op = "none"
    /\ \E title \in StripTitles, body \in Bodies :
         fn' = [op    |-> "wrapped",
                title |-> title,
                body  |-> body,
                html  |-> HtmlContent(title, PlainMeta.pubDate,
                                      PlainMeta.url, body)]
    /\ UNCHANGED <<budget, ledger, rawStore, orphans, inv, tr, rn>>

\* A Render stage removes the marker: what Render-Markdown hands to
\* turndown, and what Render-JSON saves as content.
StripClean(stage) ==
    /\ fn.op = "wrapped"
    /\ fn' = [op      |-> "cleaned",
              stage   |-> stage,
              title   |-> fn.title,
              body    |-> fn.body,
              html    |-> fn.html,
              content |-> IF stage = "markdown" THEN CleanHtml(fn.html)
                          ELSE JsonWrite(fn.html, Metadata(fn.html, 0),
                                         <<"a">>, <<"e", "s">>, 0).body.content]
    /\ UNCHANGED <<budget, ledger, rawStore, orphans, inv, tr, rn>>

InitStrip ==
    /\ IngestOff
    /\ tr = IdleTranslate
    /\ rn = IdleRender
    /\ fn = NoFn

NextStrip ==
    \/ StripWrap
    \/ \E stage \in Stages : StripClean(stage)

\* A body wrapped by Ingest and cleaned by a Render stage.
SpecStrip == InitStrip /\ [][NextStrip]_vars

----------------------------------------------------------------------------
(* Ingest: properties.                                                     *)

Succeeded(r) ==
    /\ r.pc = "done"
    /\ r.res = [status |-> 200,
                body |-> "New RSS feed digestion completed successfully."]

AllOk(uploads) == \A k \in 1..Len(uploads) : uploads[k].status = "ok"

LinksOf(items) == {items[i].link : i \in 1..Len(items)}

\* The feed items whose link is not in the set L, in feed order.
NotIn(items, L) ==
    LET keep(i) == i.link \notin L IN SelectSeq(items, keep)

\* No storage write was issued by the invocation r, and the ledger is the
\* one it found.
NoWrites(r) ==
    /\ r.uploads = <<>>
    /\ r.saves = 0
    /\ ledger = r.ledger0

\* C1  Ledger monotonicity: whatever the feed and however the ledger read,
\* the item writes and the ledger save end, no step of any sequence of
\* invocations removes a link from the persisted ledger.
LedgerMonotone ==
    [][Elems(ledger.urls) \subseteq Elems(ledger'.urls)]_vars

\* C2  Dedup correctness: an invocation that ends in success on a feed
\* whose items all carry links has written exactly the feed items whose
\* link was not in the persisted ledger L, and has saved L united with
\* their links.
DedupCorrect ==
    \A p \in Procs :
        LET r == inv[p]
            L == Elems(r.ledger0.urls)
        IN  (Succeeded(r) /\ "" \notin LinksOf(r.feed.items)) =>
                /\ r.newItems = NotIn(r.feed.items, L)
                /\ Len(r.uploads) = Len(r.newItems)
                /\ AllOk(r.uploads)
                /\ Elems(ledger.urls) = L \cup LinksOf(r.newItems)

\* C3, the state part: once an item write of an invocation has failed, the
\* invocation never calls saveProcessedItems, the ledger stays as found,
\* and the answer is 500 with the message of the error.
FailedWriteNoSave ==
    \A p \in Procs :
        LET r == inv[p]
        IN  WriteFailed(r) =>
                /\ r.saves = 0
                /\ ledger = r.ledger0
                /\ r.pc = "done"
                /\ r.res = [status |-> 500,
                            body |-> "Error processing RSS feed: " \o r.error]

\* C3, the step part: when the invocation that follows one ended by a failed
\* item write sees the same feed, every item of the failed batch is among
\* its new items.
FailedBatchNewAgain ==
    \A p \in Procs :
        (/\ inv[p].pc = "loading"
         /\ inv'[p].pc # "loading"
         /\ inv[p].prev.writeFailed
         /\ inv[p].feed.items = inv[p].prev.feed) =>
            \A i \in 1..Len(inv[p].prev.batch) :
                \E j \in 1..Len(inv'[p].newItems) :
                    inv'[p].newItems[j] = inv[p].prev.batch[i]

\* C3  Partial failure leaves no ledger update: a failed item write means
\* no ledger save, an unchanged ledger and a 500 answer carrying the
\* message, and the following invocation on the same feed treats every
\* item of the failed batch as new again.
PartialFailureNoLedgerUpdate ==
    [][FailedWriteNoSave' /\ FailedBatchNewAgain]_vars

\* C4  The ledger is saved once, after all item writes: saveProcessedItems
\* is called at most once per invocation, never while an item write is
\* unsettled, and it has been called once every write of a non-empty batch
\* has succeeded.
SaveOnceAfterAllWrites ==
    \A p \in Procs :
        LET r == inv[p]
        IN  /\ r.saves <= 1
            /\ r.saves = 1 => AllOk(r.uploads)
            /\ (r.uploads # <<>> /\ AllOk(r.uploads)) => r.saves = 1
            /\ r.pc = "saving" => r.saves = 1

SaveOnceAfterAllWrites_witness ==
    \E p \in Procs :
        /\ inv[p].pc = "saving"
        /\ Len(inv[p].uploads) = 2
        /\ AllOk(inv[p].uploads)
        /\ inv[p].saves = 1

\* C5  Empty feed: a feed with no item list or with zero items ends the
\* invocation with no storage write, the ledger as found, and the answer
\* 200 'No RSS items to process.', which is neither of the other two
\* success messages.
EmptyFeedNoWrites ==
    \A p \in Procs :
        LET r == inv[p]
        IN  (r.fetched = "ok" /\ (~r.feed.hasItems \/ r.feed.items = <<>>)) =>
                /\ r.pc = "done"
                /\ NoWrites(r)
                /\ r.readOutcome = "none"
                /\ r.res = [status |-> 200, body |-> "No RSS items to process."]
                /\ r.res.body \notin
                       {"No new RSS items to process.",
                        "New RSS feed digestion completed successfully."}

EmptyFeedNoWrites_witness ==
    \E p \in Procs :
        /\ inv[p].fetched = "ok"
        /\ inv[p].feed.hasItems
        /\ inv[p].feed.items = <<>>
        /\ inv[p].ledger0.exists
        /\ inv[p].pc = "done"

\* C6  No new items: when every link of the feed's items is in the loaded
\* ledger, the invocation writes no object, does not save the ledger, and
\* answers 200 'No new RSS items to process.'.
NoNewItemsNoWrites ==
    \A p \in Procs :
        LET r == inv[p]
        IN  (/\ r.readOutcome # "none"
             /\ ~r.loaded.threw
             /\ LinksOf(r.feed.items) \ {""} \subseteq Elems(r.loaded.value)) =>
                /\ r.pc = "done"
                /\ NoWrites(r)
                /\ r.res = [status |-> 200, body |-> "No new RSS items to process."]

NoNewItemsNoWrites_witness ==
    \E p \in Procs :
        /\ inv[p].readOutcome = "ok"
        /\ Len(inv[p].feed.items) = 2
        /\ "" \notin LinksOf(inv[p].feed.items)
        /\ LinksOf(inv[p].feed.items) \subseteq Elems(inv[p].loaded.value)
        /\ inv[p].pc = "done"

\* C7  Feed fetch failure is fatal and free of side effects: when
\* parser.parseURL fails, the invocation issues no storage write and
\* answers 500 'Error processing RSS feed: <error message>'.
FetchFailureNoWrites ==
    \A p \in Procs :
        LET r == inv[p]
        IN  r.fetched = "failed" =>
                /\ r.pc = "done"
                /\ NoWrites(r)
                /\ r.readOutcome = "none"
                /\ r.error \in FetchMessages
                /\ r.res = [status |-> 500,
                            body |-> "Error processing RSS feed: " \o r.error]

FetchFailureNoWrites_witness ==
    \E p \in Procs :
        /\ inv[p].fetched = "failed"
        /\ inv[p].ledger0.exists
        /\ inv[p].res.body = "Error processing RSS feed: Status code 503"

\* C8  Ledger load never blocks ingestion: getProcessedItems never throws,
\* and returns the empty set when the ledger is not found, when the
\* download fails otherwise and when the content does not parse, so that
\* main goes on to filter the feed against that set.
LedgerLoadNeverBlocks ==
    \A p \in Procs :
        LET r == inv[p]
        IN  r.readOutcome # "none" =>
                /\ ~r.loaded.threw
                /\ r.processedItems = r.loaded.value
                /\ r.readOutcome \in {"notfound", "error", "corrupt"} =>
                       /\ r.loaded.value = <<>>
                       /\ r.newItems = NotIn(r.feed.items, {""})

LedgerLoadNeverBlocks_witness ==
    \E p \in Procs :
        /\ inv[p].readOutcome \in {"error", "corrupt"}
        /\ inv[p].ledger0.exists
        /\ inv[p].pc = "uploading"

----------------------------------------------------------------------------
(* Translate and Render: properties.                                       *)

\* A name of the form <base>_<languageTag>_translations.html.
Shaped(name) ==
    LET n == Len(name) - Len(TRANSLATIONS_SUFFIX)
    IN  /\ n >= 0
        /\ SubSeq(name, n + 1, Len(name)) = TRANSLATIONS_SUFFIX
        /\ \E i \in 1..n : name[i] = "_" /\ IsLanguage(SubSeq(name, i + 1, n))

\* C9  Routing skip is non-fatal in the Render stages: a delivery to
\* Render-Markdown or Render-JSON whose bucket is not the translated-HTML
\* bucket, or whose object name is not of the form
\* <base>_<languageTag>_translations.html, downloads nothing, writes
\* nothing, and ends with its promise fulfilled.  The delivery is one whose
\* event names a bucket and an object; an event without file data is
\* refused before the routing.
RoutingSkipNonFatal ==
    (/\ rn.pc # "idle"
     /\ rn.data
     /\ \/ rn.event.bucket # TRANSLATED_HTML_BUCKET_NAME
        \/ ~Shaped(rn.event.name)) =>
        /\ rn.pc = "done"
        /\ rn.outcome = "fulfilled"
        /\ rn.error = ""
        /\ rn.downloads = 0
        /\ rn.write = <<>>
        /\ rn.markdown = rn.before.markdown
        /\ rn.content = rn.before.content

RoutingSkipNonFatal_witness ==
    /\ rn.pc = "done"
    /\ rn.stage = "json"
    /\ rn.data
    /\ rn.event.bucket = TRANSLATED_HTML_BUCKET_NAME
    /\ Len(rn.event.name) > Len(TRANSLATIONS_SUFFIX)
    /\ ~Shaped(rn.event.name)
    /\ rn.before.content # <<>>

\* The raw-HTML area: the objects under raw-html/ of the raw-HTML bucket.
InRawArea(event) ==
    /\ event.bucket = RAW_HTML_BUCKET_NAME
    /\ event.name \in RawHtmlNames

\* C10  Translate validates its trigger: a delivery for an object outside
\* the raw-HTML area (another bucket, or an object such as the ledger file)
\* makes no call of the translation API and ends as a no-op.
TranslateValidatesTrigger ==
    (tr.pc # "idle" /\ ~InRawArea(tr.event)) =>
        /\ tr.request = <<>>
        /\ tr.pc = "done"
        /\ tr.outcome = "fulfilled"

\* C11  Render failure is terminal and surfaced: in Render-Markdown and
\* Render-JSON a failure of the download, of the conversion or of the
\* output write ends the delivery with the promise of main rejected, and
\* after a failure of the download or of the conversion no output object
\* has been written.
RenderFailureSurfaced ==
    /\ rn.failedAt # "" =>
           /\ rn.pc = "done"
           /\ rn.outcome = "rejected"
           /\ rn.error # ""
           /\ rn.markdown = rn.before.markdown
           /\ rn.content = rn.before.content
    /\ rn.failedAt \in {"download", "conversion"} => rn.write = <<>>
    /\ (rn.pc = "done" /\ rn.downloads = 1 /\ rn.outcome = "fulfilled") =>
           rn.failedAt = "" /\ rn.write # <<>>

RenderFailureSurfaced_witness ==
    /\ rn.pc = "done"
    /\ rn.stage = "markdown"
    /\ rn.failedAt = "conversion"
    /\ rn.outcome = "rejected"
    /\ rn.before.markdown # <<>>

\* C12  Translate failure is surfaced to the trigger: when
\* batchTranslateText or the wait for the operation fails, the delivery ends
\* with the promise of main rejected, not fulfilled.
TranslateFailureSurfaced ==
    tr.failedAt # "" => (tr.pc = "done" /\ tr.outcome = "rejected")

\* C13  Metadata round-trip: for any title, publish date and source URL over
\* an alphabet holding '"', '%', '>' and '&', what a Render stage decodes
\* from the marker Ingest embeds is exactly what Ingest was given.
MetadataRoundTrip ==
    fn.op = "decoded" =>
        /\ ~fn.decoded.threw
        /\ fn.decoded.title = fn.meta.title
        /\ fn.decoded.date = fn.meta.pubDate
        /\ fn.decoded.source_url = <<fn.meta.url>>

\* C14  Decode never fails: whatever content the download resolves to, with
\* none, some or all of the marker attributes and any values in them, the
\* Render stage reads a metadata record from it and goes on to its write;
\* the metadata step raises no error that fails the delivery.
DecodeNeverFails ==
    (rn.pc \in {"writing", "done"} /\ rn.downloads = 1
                                   /\ rn.failedAt # "download") =>
        /\ rn.failedAt # "conversion"
        /\ rn.write # <<>>

\* The base name holds the sequence that ends a translated name, or the "/"
\* that ends the prefix.
HasSeparator(base) ==
    \/ IndexFrom(base, TRANSLATIONS_SUFFIX, 1) # 0
    \/ IndexFrom(base, <<"/">>, 1) # 0

\* C15  Filename contract round trip, as stated: for a base name free of
\* the separator sequence and a language tag of the pattern's form, parsing
\* <prefix>/<baseName>_<languageTag>_translations.html gives exactly
\* (baseName, languageTag) as the identity of the output.
FilenameRoundTrip ==
    (fn.op = "parsed" /\ ~HasSeparator(fn.base)) =>
        fn.identity = <<[originalFileName |-> fn.base,
                         language         |-> fn.language]>>

\* C15  Filename contract round trip, as the code has it: the language tag
\* is always recovered, and the identity is the base name with the first
\* occurrence of the staging-area token removed; so a base name without
\* that token is recovered exactly.
FilenameRoundTripSansToken ==
    fn.op = "parsed" =>
        /\ fn.identity # <<>>
        /\ fn.identity[1].language = fn.language
        /\ fn.identity[1].originalFileName =
               ReplaceFirst(fn.base, RAW_PREFIX, <<>>)
        /\ IndexFrom(fn.base, RAW_PREFIX, 1) = 0 =>
               fn.identity[1].originalFileName = fn.base

FilenameRoundTripSansToken_witness ==
    /\ fn.op = "parsed"
    /\ fn.base = <<"a", "_">>
    /\ fn.language = <<"p", "t", "-", "B", "R">>
    /\ fn.identity = <<[originalFileName |-> <<"a", "_">>,
                        language         |-> <<"p", "t", "-", "B", "R">>]>>

\* The base name and the language tag a name of RenderNames is built from,
\* the staging-area token at the head of the base name left out.
NameParts(filePath) ==
    {[base     |-> IF Len(b) >= Len(RAW_PREFIX)
                      /\ SubSeq(b, 1, Len(RAW_PREFIX)) = RAW_PREFIX
                   THEN SubSeq(b, Len(RAW_PREFIX) + 1, Len(b)) ELSE b,
      language |-> l] :
        <<d, b, l>> \in {x \in RenderDirs \X RenderBases \X RenderLanguages :
            filePath = x[1] \o x[2] \o <<"_">> \o x[3]
                            \o TRANSLATIONS_SUFFIX}}

\* C16  Render output identity: a delivery for an accepted name that ends
\* well has written exactly one object; Render-Markdown at
\* <languageTag>/<originalBaseName>.md of the Markdown bucket, Render-JSON
\* at <languageTag>/<clock reading>/<originalBaseName>.json of the content
\* bucket; and the language saved in it is the tag of the name.
RenderOutputIdentity ==
    (rn.pc = "done" /\ rn.downloads = 1 /\ rn.outcome = "fulfilled") =>
        /\ Len(rn.write) = 1
        /\ \E p \in NameParts(rn.event.name) :
             LET w == rn.write[1]
             IN  IF rn.stage = "markdown"
                 THEN /\ w.bucket = MARKDOWN_BUCKET_NAME
                      /\ w.path = Flat(p.language) \o "/" \o Flat(p.base)
                                      \o ".md"
                      /\ w.body.frontmatter.language = p.language
                      /\ rn.markdown = Put(rn.before.markdown, w.path, w.body)
                      /\ rn.content = rn.before.content
                 ELSE /\ w.bucket = CONTENT_BUCKET_NAME
                      /\ w.path = Flat(p.language) \o "/"
                                      \o ToString(rn.clock) \o "/"
                                      \o Flat(p.base) \o ".json"
                      /\ w.body.language = p.language
                      /\ rn.content = Put(rn.before.content, w.path, w.body)
                      /\ rn.markdown = rn.before.markdown

RenderOutputIdentity_witness ==
    /\ rn.pc = "done"
    /\ rn.outcome = "fulfilled"
    /\ rn.stage = "json"
    /\ Len(rn.write) = 1
    /\ rn.write[1].path = "pt-BR/1/Post_1-0.json"
    /\ rn.write[1].body.language = <<"p", "t", "-", "B", "R">>

\* C17  Ledger persistence round trip: a set of link strings saved with
\* saveProcessedItems and loaded with getProcessedItems, the download
\* resolving, comes back as a set of the same links.
LedgerRoundTrip ==
    fn.op = "loaded" =>
        /\ ~fn.loaded.threw
        /\ Elems(fn.loaded.value) = Elems(fn.set)
        /\ Len(fn.loaded.value) = Len(fn.set)

LedgerRoundTrip_witness ==
    /\ fn.op = "loaded"
    /\ fn.set = <<<<"\"", ",">>, <<"\\", "\n">>>>
    /\ Utf8Decode(fn.file.content) =
           <<"[", "\"", "\\", "\"", ",", "\"", ",", "\"", "\\", "\\", "\\",
             "n", "\"", "]">>
    /\ fn.loaded.value = fn.set

\* The item write k of the invocation r carries the marker of its item
\* before the content of the item.
PayloadOf(r, k) ==
    LET item == r.newItems[k]
        w    == r.uploads[k]
        html == RawHtml(w.body)
        open == IndexFrom(html, MARKER_OPEN, 1)
        shut == IndexFrom(html, DIV_CLOSE, 1)
        body == IF item.content # "" THEN item.content
                ELSE item.contentEncoded
    IN  /\ w.contentType = "text/html"
        /\ open # 0 /\ open < shut
        /\ \A a \in {DATA_TITLE, DATA_PUBDATE, DATA_URL} :
               IndexFrom(html, a, 1) \in (open + 1)..(shut - 1)
        /\ item.title # <<>> =>
               AttrMatch(html, DATA_TITLE) = <<<<Flat(item.title)>>>>
        /\ item.pubDate # "" =>
               AttrMatch(html, DATA_PUBDATE) = <<<<item.pubDate>>>>
        /\ item.link # "" => AttrMatch(html, DATA_URL) = <<<<item.link>>>>
        /\ IndexFrom(html, <<body>>, 1) > shut
        /\ CleanHtml(html) = <<"\n">> \o Spaces(8) \o <<"\n">> \o Spaces(8)
                                 \o <<body, "\n">> \o Spaces(6)

\* C18  Raw payload content: every item write of Ingest, looked at when
\* the writes of the invocation have been issued, is of content type
\* text/html and carries the hidden marker with data-title, data-pubdate
\* and data-url equal to the title, publish date and link of its item,
\* before the content of the item, which stands in it unchanged; and an
\* invocation that finds no ledger and a feed of one item with a link, and
\* ends well, has made one item write and saved the ledger as the array of
\* that link.
RawPayloadContent ==
    \A p \in Procs :
        LET r == inv[p]
        IN  /\ Len(r.uploads) = Len(r.newItems)
            /\ (r.pc = "uploading"
                   /\ \A k \in 1..Len(r.uploads) :
                          r.uploads[k].status = "pending") =>
                   \A k \in 1..Len(r.uploads) : PayloadOf(r, k)
            /\ \A k \in 1..Len(r.uploads) :
                   r.uploads[k].status = "ok" =>
                       rawStore[r.uploads[k].path] \in
                           {r.uploads[j].body : j \in 1..Len(r.uploads)}
            /\ (/\ Succeeded(r)
                /\ ~r.ledger0.exists
                /\ Len(r.feed.items) = 1
                /\ r.feed.items[1].link # "") =>
                   /\ Len(r.uploads) = 1
                   /\ r.saves = 1
                   /\ rawStore = Put(<<>>, r.uploads[1].path, r.uploads[1].body)
                   /\ ledger = [exists |-> TRUE,
                                urls   |-> <<r.feed.items[1].link>>]

RawPayloadContent_witness ==
    \E p \in Procs :
        /\ Succeeded(inv[p])
        /\ ~inv[p].ledger0.exists
        /\ Len(inv[p].feed.items) = 1
        /\ Len(inv[p].uploads) = 1
        /\ AttrMatch(RawHtml(inv[p].uploads[1].body), DATA_URL) =
               <<<<"http://example.com/post1">>>>
        /\ ledger.urls = <<"http://example.com/post1">>

\* C19  Ingest output paths never collide: two new items of an invocation
\* that differ in their link are written to two different paths, also when
\* their titles give the same slug and the clock reads the same for both.
IngestPathsDistinct ==
    \A p \in Procs :
        \A j, k \in 1..Len(inv[p].uploads) :
            inv[p].newItems[j].link # inv[p].newItems[k].link =>
                inv[p].uploads[j].path # inv[p].uploads[k].path

\* A delivery after the first to the stage has put its object, and an
\* earlier delivery of the event had put one.
Redelivered(stage) ==
    /\ rn.stage = stage
    /\ rn.deliveries >= 2
    /\ rn.pc = "done"
    /\ rn.outcome = "fulfilled"
    /\ rn.write # <<>>
    /\ (IF stage = "markdown" THEN rn.before.markdown
        ELSE rn.before.content) # <<>>

\* C20  Re-trigger idempotency, as stated: the same event delivered again
\* to Translate, Render-Markdown or Render-JSON leads to the output path of
\* the first delivery, so that the objects after two deliveries are those
\* after one.
RetriggerSamePaths ==
    /\ \A r1, r2 \in tr.requests :
           r1.inputUri = r2.inputUri =>
               r1.outputUriPrefix = r2.outputUriPrefix
    /\ Redelivered("markdown") =>
           DOMAIN rn.markdown = DOMAIN rn.before.markdown
    /\ Redelivered("json") =>
           DOMAIN rn.content = DOMAIN rn.before.content

\* C20  Re-trigger idempotency, as the code has it: Render-Markdown puts
\* its object at the path of the earlier delivery and leaves the set of
\* objects as it was; Render-JSON puts its object at the path that holds
\* the clock reading of the delivery, and Translate asks for output under
\* the prefix that holds it, so the outputs of two deliveries coincide
\* only when the clock read the same.
RetriggerMarkdownOnly ==
    /\ Redelivered("markdown") =>
           /\ DOMAIN rn.markdown = DOMAIN rn.before.markdown
           /\ rn.content = rn.before.content
    /\ Redelivered("json") =>
           LET p == rn.match[1]
               at(t) == Flat(p.language) \o "/" \o ToString(t) \o "/"
                            \o Flat(OriginalFileName(p.base)) \o ".json"
           IN  /\ at(rn.clock) \in DOMAIN rn.content
               /\ DOMAIN rn.content \subseteq {at(t) : t \in 0..rn.clock}
               /\ rn.markdown = rn.before.markdown
    /\ (tr.deliveries >= 2 /\ tr.request # <<>>) =>
           /\ tr.request[1].outputUriPrefix =
                  "gs://" \o TRANSLATED_HTML_BUCKET_NAME \o "/"
                      \o ToString(tr.clock) \o "/"
           /\ \A r \in tr.requests :
                  r.inputUri = tr.request[1].inputUri =>
                      \E t \in 0..tr.clock :
                          r.outputUriPrefix =
                              "gs://" \o TRANSLATED_HTML_BUCKET_NAME \o "/"
                                  \o ToString(t) \o "/"

RetriggerMarkdownOnly_witness ==
    /\ Redelivered("markdown")
    /\ rn.clock = 1
    /\ DOMAIN rn.markdown = {"es/a.md"}
    /\ rn.markdown # rn.before.markdown

\* C21  Fatal read failure: when the download of the ledger fails with an
\* error other than not-found, the invocation ends with HTTP 500, issues no
\* item write and does not save the ledger.
FatalReadFailure ==
    \A p \in Procs :
        inv[p].readOutcome = "error" =>
            /\ inv[p].pc = "done"
            /\ inv[p].res.status = 500
            /\ inv[p].uploads = <<>>
            /\ inv[p].saves = 0

\* C22  Concurrent Ingest hazard: with two overlapping invocations nothing
\* guards the ledger; a save that resolves replaces the object with the
\* array of its own invocation, whatever the object held, and the
\* invocation answers 200.
ConcurrentLastSaveWins ==
    [][\A p \in Invocations :
          (inv[p].pc = "saving" /\ inv'[p].pc = "done"
                                /\ inv'[p].res.status = 200) =>
              ledger' = [exists |-> TRUE, urls |-> inv[p].saveArg]]_vars

\* Both invocations read the same ledger, both wrote an object for the same
\* link, both answered 200, and the ledger is the array of the one that
\* saved last: a link the other had saved is gone.
ConcurrentLastSaveWins_witness ==
    \E p, q \in Invocations :
        /\ p # q
        /\ Succeeded(inv[p]) /\ Succeeded(inv[q])
        /\ inv[p].readOutcome = "notfound" /\ inv[q].readOutcome = "notfound"
        /\ inv[p].loaded = inv[q].loaded
        /\ \E j \in 1..Len(inv[p].uploads), k \in 1..Len(inv[q].uploads) :
               /\ inv[p].uploads[j].link = inv[q].uploads[k].link
               /\ inv[p].uploads[j].status = "ok"
               /\ inv[q].uploads[k].status = "ok"
               /\ inv[p].uploads[j].path # inv[q].uploads[k].path
               /\ {inv[p].uploads[j].path, inv[q].uploads[k].path}
                      \subseteq DOMAIN rawStore
        /\ ledger.urls = inv[p].saveArg
        /\ \E l \in Elems(inv[q].saveArg) : ~Has(ledger.urls, l)

\* The links of the items, in their order.
LinkSeq(items) == [i \in 1..Len(items) |-> items[i].link]

\* C23  Saved ledger order, as stated: the array an invocation saves lists
\* the loaded links in their loaded order, then the links of the new items
\* in feed order, whatever the order in which the item writes completed.
SavedLedgerFeedOrder ==
    \A p \in Procs :
        inv[p].saves = 1 =>
            inv[p].saveArg =
                NewSet(inv[p].loaded.value \o LinkSeq(inv[p].newItems))

\* C23  Saved ledger order, as the code has it: the array begins with the
\* loaded links in their loaded order and goes on with the links of the
\* new items, each once, in the order in which their writes resolved: a
\* write that resolves puts its link last, unless the set holds it.
SavedLedgerCompletionOrder ==
    [][\A p \in Procs :
          LET r == inv'[p]
              n == Len(r.loaded.value)
          IN  /\ \A k \in 1..Len(inv[p].uploads) :
                     (/\ Len(r.uploads) = Len(inv[p].uploads)
                      /\ inv[p].uploads[k].status = "pending"
                      /\ r.uploads[k].status = "ok") =>
                         r.newProcessedItems =
                             IF inv[p].uploads[k].link
                                    \in Elems(inv[p].newProcessedItems)
                             THEN inv[p].newProcessedItems
                             ELSE Append(inv[p].newProcessedItems,
                                         inv[p].uploads[k].link)
              /\ r.saves = 1 =>
                     /\ Len(r.saveArg) >= n
                     /\ SubSeq(r.saveArg, 1, n) = r.loaded.value
                     /\ Elems(r.saveArg) =
                            Elems(r.loaded.value) \cup LinksOf(r.newItems)
                     /\ Cardinality(Elems(r.saveArg)) = Len(r.saveArg)]_vars

\* The second item's write resolved first, and its link is saved first.
SavedLedgerCompletionOrder_witness ==
    \E p \in Procs :
        /\ Succeeded(inv[p])
        /\ LinkSeq(inv[p].newItems) =
               <<"http://example.com/post1", "http://example.com/post2">>
        /\ ledger.urls =
               <<"http://example.com/post2", "http://example.com/post1">>

\* C24  Decode defaults are per field: the record a Render stage saves
\* carries a string for title, date and source_url, an absent attribute
\* having resolved to its default; in the record of Render-JSON a field
\* that is undefined, and so left out of the JSON text, is <<>>.
DecodeDefaultsPerField ==
    rn.write # <<>> =>
        IF rn.stage = "markdown"
        THEN LET f == rn.write[1].body.frontmatter
             IN  /\ f.source_url # <<>>
                 /\ f.date # <<>>
        ELSE LET j == rn.write[1].body
             IN  /\ j.date # <<>>
                 /\ j.source_url # <<>>

\* The path is raw-html/<slug>-<clock reading>.html, the slug no longer
\* than SlugMaxLen, made of characters of allowed, and holding the letters
\* and digits of the title at their places.
PathShape(allowed) ==
    fn.op = "written" =>
        /\ DOMAIN rawStore = {fn.path}
        /\ fn.path = "raw-html/" \o Flat(fn.slug) \o "-" \o ToString(fn.now)
                         \o ".html"
        /\ Len(fn.slug) <= SlugMaxLen
        /\ Len(fn.slug) <= Len(fn.title)
        /\ \A i \in 1..Len(fn.slug) :
               /\ fn.slug[i] \in allowed
               /\ fn.title[i] \in Lower \cup Upper \cup Digit =>
                      fn.slug[i] = fn.title[i]

\* C25  Raw path shape, as stated: the path of every item write is
\* raw-html/<slug>-<timestampMillis>.html with a slug derived from the
\* title, at most 50 characters long, of ASCII letters and digits only.
RawPathAlphanumeric == PathShape(Lower \cup Upper \cup Digit)

\* C25  Raw path shape, as the code has it: the slug is the first 50
\* characters of the title with every character that is no ASCII letter or
\* digit replaced by "_", so it holds letters, digits and "_".
RawPathUnderscored ==
    /\ PathShape(Lower \cup Upper \cup Digit \cup {"_"})
    /\ fn.op = "written" =>
           /\ Len(fn.slug) = Min(Len(fn.title), SlugMaxLen)
           /\ \A i \in 1..Len(fn.slug) :
                  fn.title[i] \notin Lower \cup Upper \cup Digit =>
                      fn.slug[i] = "_"

RawPathUnderscored_witness ==
    /\ fn.op = "written"
    /\ Len(fn.title) = SlugMaxLen + 1
    /\ Len(fn.slug) = SlugMaxLen
    /\ fn.slug[SlugMaxLen] = "_"
    /\ fn.now = 1

\* C26  Area ownership: Ingest writes item objects under raw-html/ of the
\* raw-HTML bucket, and the ledger object beside them; Translate asks for
\* output under the translated-HTML bucket only; Render-Markdown saves in
\* the Markdown bucket and Render-JSON in the content bucket; no stage
\* touches the bucket of another stage or the object that triggered it.
AreaOwnership ==
    /\ \A k \in 1..Len(inv[1].uploads) :
           LET w == inv[1].uploads[k]
           IN  /\ w.bucket = RAW_HTML_BUCKET_NAME
               /\ w.path # PROCESSED_ITEMS_FILE
               /\ \E t \in 0..MaxClock :
                      w.path = "raw-html/"
                          \o Flat(Slug(TitleOf(inv[1].newItems[k])))
                          \o "-" \o ToString(t) \o ".html"
    /\ DOMAIN rawStore \subseteq
           {inv[1].uploads[k].path : k \in 1..Len(inv[1].uploads)}
    /\ inv[1].pc # "idle" =>
           /\ tr.requests = {}
           /\ rn.markdown = <<>> /\ rn.content = <<>>
    /\ \A r \in tr.requests :
           /\ \E t \in 0..MaxClock :
                  r.outputUriPrefix =
                      "gs://" \o TRANSLATED_HTML_BUCKET_NAME \o "/"
                          \o ToString(t) \o "/"
           /\ r.outputUriPrefix # r.inputUri
    /\ tr.deliveries > 0 =>
           /\ rawStore = <<>>
           /\ rn.markdown = <<>> /\ rn.content = <<>>
    /\ rn.write # <<>> =>
           /\ rn.write[1].bucket =
                  (IF rn.stage = "markdown" THEN MARKDOWN_BUCKET_NAME
                   ELSE CONTENT_BUCKET_NAME)
           /\ rn.write[1].bucket # rn.event.bucket
    /\ rn.deliveries > 0 =>
           /\ rawStore = <<>>
           /\ tr.requests = {}
           /\ rn.stage = "markdown" => rn.content = rn.before.content
           /\ rn.stage = "json" => rn.markdown = rn.before.markdown

AreaOwnership_witness ==
    /\ rn.stage = "markdown"
    /\ rn.pc = "done"
    /\ rn.outcome = "fulfilled"
    /\ rn.event.bucket = TRANSLATED_HTML_BUCKET_NAME
    /\ rn.write # <<>>
    /\ rn.write[1].bucket = MARKDOWN_BUCKET_NAME
    /\ DOMAIN rn.markdown = {"pt-BR/a.md"}
    /\ rn.content = <<>>

\* C27  Marker stripping: what a Render stage keeps of a content wrapped
\* by Ingest holds none of data-title, data-pubdate, data-url and nothing
\* else of the marker: it is the body of the item between the white space
\* of the template.
MarkerStripped ==
    fn.op = "cleaned" =>
        /\ \A a \in {DATA_TITLE, DATA_PUBDATE, DATA_URL} :
               IndexFrom(fn.content, a, 1) = 0
        /\ fn.content = <<"\n">> \o Spaces(8) \o <<"\n">> \o Spaces(8)
                            \o fn.body \o <<"\n">> \o Spaces(6)

\* C28  No write after acknowledgment: once an invocation has sent its
\* response, none of its item writes is still in flight; the 500 that
\* follows a failed item write is sent after the other writes settled.
NoWriteAfterResponse ==
    \A p \in Procs :
        inv[p].res # NoResponse =>
            \A k \in 1..Len(inv[p].uploads) :
                inv[p].uploads[k].status # "pending"

\* C29  At most one write per link: the item writes of one invocation are
\* for different links, also when the feed lists a link more than once.
OneWritePerLink ==
    \A p \in Procs :
        \A j, k \in 1..Len(inv[p].uploads) :
            j # k => inv[p].uploads[j].link # inv[p].uploads[k].link

\* C30  Link-less items are inert: an item without a link is never among
\* the new items and no object is written for it; and the ledger holds
\* only links of feed items or of the ledger as loaded, never the empty
\* string or the placeholder of a missing link.
LinklessInert ==
    \A p \in Procs :
        LET r == inv[p]
        IN  /\ \A k \in 1..Len(r.newItems) : r.newItems[k].link # ""
            /\ \A k \in 1..Len(r.uploads) :
                   /\ r.uploads[k].link # ""
                   /\ r.uploads[k].body.url # "No URL"
            /\ Len(r.uploads) <=
                   Cardinality({i \in 1..Len(r.feed.items) :
                                   r.feed.items[i].link # ""})
            /\ Elems(r.saveArg) \subseteq
                   Elems(r.loaded.value) \cup (LinksOf(r.feed.items) \ {""})
            /\ Elems(ledger.urls) \cap {"", "No URL"} = {}
            /\ (r.pc # "idle" /\ ledger # r.ledger0) =>
                   ledger = [exists |-> TRUE, urls |-> r.saveArg]

LinklessInert_witness ==
    \E p \in Procs :
        /\ Succeeded(inv[p])
        /\ LinkSeq(inv[p].feed.items) = <<"", "http://example.com/post1">>
        /\ Len(inv[p].uploads) = 1
        /\ DOMAIN rawStore = {inv[p].uploads[1].path}
        /\ ledger.urls = <<"http://example.com/post1">>

\* C31  Sequential idempotence of Ingest: when an invocation has answered
\* 200 and the next one, begun after it ended, sees the same feed and its
\* ledger read succeeds (the object is read, or is found absent), the
\* second invocation issues no item write and no ledger save, leaves the
\* storage as it found it and answers 'No new RSS items to process.'.
SequentialIdempotence ==
    [][\A p \in Procs :
         (/\ inv[p].pc = "loading"
          /\ inv'[p].pc # "loading"
          /\ inv[p].prev.succeeded
          /\ inv[p].feed.items = inv[p].prev.feed
          /\ inv'[p].readOutcome \in {"ok", "notfound"}) =>
             /\ inv'[p].pc = "done"
             /\ inv'[p].res = [status |-> 200,
                               body |-> "No new RSS items to process."]
             /\ inv'[p].newItems = <<>>
             /\ inv'[p].uploads = <<>>
             /\ inv'[p].saves = 0
             /\ ledger' = ledger
             /\ rawStore' = rawStore
             /\ ledger = inv[p].ledger0]_vars

SequentialIdempotence_witness ==
    \E p \in Procs :
        LET r == inv[p]
        IN  /\ budget = 0
            /\ r.pc = "done"
            /\ r.readOutcome = "ok"
            /\ r.res = [status |-> 200,
                        body |-> "No new RSS items to process."]
            /\ LinkSeq(r.feed.items) =
                   <<"http://example.com/post1", "http://example.com/post2">>
            /\ r.uploads = <<>>
            /\ r.saves = 0
            /\ ledger = r.ledger0
            /\ ledger.urls =
                   <<"http://example.com/post2", "http://example.com/post1">>
            /\ Cardinality(DOMAIN rawStore) = 2

====
